---------------------------- MODULE Spec2Model ----------------------------
(***************************************************************************)
(* A model of the SystemTap BPF back end (bpf-translate.cxx,               *)
(* bpf-internal.h): the Program builder (blocks, edges, instructions,      *)
(* max_tmp_space), the AST-to-CFG translator (bpf_unparser), the           *)
(* translation pass, and an interpreter for the instructions the           *)
(* translator emits, so that properties of the generated code are checked  *)
(* on its executions.                                                      *)
(***************************************************************************)
EXTENDS Integers, Sequences, FiniteSets, TLC

VARIABLES
  prog,        \* struct program: target, blocks, nregs, max_tmp_space
  u,           \* bpf_unparser: this_ins, exit_block, ret0_block, catch_jump, ...
  pc,          \* where the translator / generated program stands
  requested,   \* history: the sizes passed to use_tmp_space so far
  mach,        \* the machine running the generated program
  inp,         \* the input of the scenario being translated or run
  drv,         \* the frame of the translate_* function that is running
  ctl,         \* the visitors that are open, innermost last, with their locals
  hist         \* history: what was translated, for stating the properties

vars == <<prog, u, pc, requested, mach, inp, drv, ctl, hist>>

-----------------------------------------------------------------------------
(* Program constants                                                       *)

MAX_BPF_KERNEL_STACK == 512
MAX_BPF_USER_STACK == 65536
BPF_MAXSTRINGLEN == 64

target_kernel_bpf == "target_kernel_bpf"
target_user_bpfinterp == "target_user_bpfinterp"
Targets == {target_kernel_bpf, target_user_bpfinterp}

MAX_BPF_STACK(target) ==
  IF target = target_kernel_bpf THEN MAX_BPF_KERNEL_STACK ELSE MAX_BPF_USER_STACK

-----------------------------------------------------------------------------
(* struct program                                                          *)

\* program::program(target): no blocks, no temporaries, no stack reserved.
\* null_edges: the edges that were constructed with a null block as their
\* target, as <<source block, "taken" or "fallthru">>.
NewProgram(target) ==
  [target |-> target, blocks |-> <<>>, nregs |-> 0, max_tmp_space |-> 0,
   null_edges |-> {}]

\* The faulty variant: the request overwrites the recorded maximum.
use_tmp_space_overwrite(p, bytes) ==
  [p EXCEPT !.max_tmp_space = bytes]

\* program::use_tmp_space, the assignment: raise the maximum to at least bytes.
use_tmp_space(p, bytes) ==
  [p EXCEPT !.max_tmp_space = IF @ < bytes THEN bytes ELSE @]

\* program::use_tmp_space, the assertion that follows the assignment.
tmp_space_ok(p) == p.max_tmp_space <= MAX_BPF_STACK(p.target)

-----------------------------------------------------------------------------
(* struct value, struct insn, struct block, struct edge                    *)

\* exp_type, as far as values are marked with it (value::format_type).
pe_unknown == "pe_unknown"
pe_long == "pe_long"
pe_string == "pe_string"

\* value::mk_imm, value::mk_reg / mk_hardreg, value::mk_str.  A string
\* constant carries its bytes in s and the format_str mark in fmt; every
\* value is constructed with format_type pe_unknown.  NoVal is the NULL
\* value pointer.
NoVal == [t |-> "none", v |-> 0, s |-> <<>>, fmt |-> FALSE, ft |-> pe_unknown]
Imm(i) == [t |-> "imm", v |-> i, s |-> <<>>, fmt |-> FALSE, ft |-> pe_unknown]
Reg(r) == [t |-> "reg", v |-> r, s |-> <<>>, fmt |-> FALSE, ft |-> pe_unknown]
Str(bytes) == [t |-> "str", v |-> 0, s |-> bytes, fmt |-> FALSE, ft |-> pe_unknown]
FormatStr(bytes) == [t |-> "str", v |-> 0, s |-> bytes, fmt |-> TRUE, ft |-> pe_unknown]

\* The hard registers (linux/bpf.h numbering); temporaries follow them.
BPF_REG_0 == 0
BPF_REG_1 == 1
BPF_REG_2 == 2
BPF_REG_3 == 3
BPF_REG_4 == 4
BPF_REG_5 == 5
BPF_REG_6 == 6
BPF_REG_10 == 10
MAX_BPF_REG == 11

\* program::lookup_reg
lookup_reg(r) == Reg(r)

\* struct insn: opcode (op, with its width sz and, for a call or a
\* conditional jump, the helper or the condition in aux), dest, src0/src1, off.
Insn(op, sz, d, a, b, off, aux) ==
  [op |-> op, sz |-> sz, d |-> d, a |-> a, b |-> b, off |-> off, aux |-> aux]

\* struct block: the instruction list and the two outgoing edges (the id of
\* the edge's next block; NoBlock when the edge is absent).
NoBlock == 0
EmptyBlock == [insns |-> <<>>, taken |-> NoBlock, fallthru |-> NoBlock]

\* The translation context an emission routine works on: the Program and the
\* bpf_unparser that emits into it.
Cx(p, un) == [p |-> p, u |-> un]

\* program::new_block: append a block; its id is its place in blocks.
NextBlock(cx) == Len(cx.p.blocks) + 1
new_block(cx) == [cx EXCEPT !.p.blocks = Append(@, EmptyBlock)]

\* program::new_reg: the next temporary register.
NextReg(cx) == MAX_BPF_REG + cx.p.nregs
new_reg(cx) == [cx EXCEPT !.p.nregs = @ + 1]

\* bpf_unparser::set_block, clear_block, in_block.  set_block reads b->last:
\* with a null block the translator crashes.
set_block(cx, b) ==
  IF b = NoBlock THEN [cx EXCEPT !.u.crash = TRUE]
  ELSE [cx EXCEPT !.u.this_ins = b]
clear_block(cx) == [cx EXCEPT !.u.this_ins = NoBlock]
in_block(cx) == cx.u.this_ins # NoBlock

\* insn_inserter::new_insn through the append inserter: the instruction is
\* linked at the end of the inserter's block.  Inserting with no block is a
\* null dereference: the translator is marked as crashed.
new_insn(cx, b, i) ==
  IF b = NoBlock \/ b > Len(cx.p.blocks)
  THEN [cx EXCEPT !.u.crash = TRUE]
  ELSE [cx EXCEPT !.p.blocks[b].insns = Append(@, i)]

\* The mk_* helpers of struct program, each applied to this_ins.
mk_mov(cx, d, s) ==
  new_insn(cx, cx.u.this_ins, Insn("mov", 8, d, s, NoVal, 0, ""))
mk_ld(cx, sz, d, base, off) ==
  new_insn(cx, cx.u.this_ins, Insn("ld", sz, d, base, NoVal, off, ""))
mk_st(cx, sz, base, off, s) ==
  new_insn(cx, cx.u.this_ins, Insn("st", sz, base, s, NoVal, off, ""))
mk_unary(cx, op, d, s) ==
  new_insn(cx, cx.u.this_ins, Insn(op, 8, d, s, NoVal, 0, ""))
mk_binary(cx, op, d, s0, s1) ==
  new_insn(cx, cx.u.this_ins, Insn(op, 8, d, s0, s1, 0, ""))
mk_call(cx, id, nargs) ==
  new_insn(cx, cx.u.this_ins, Insn("call", 0, NoVal, NoVal, NoVal, nargs, id))
mk_exit(cx) ==
  new_insn(cx, cx.u.this_ins, Insn("exit", 0, NoVal, NoVal, NoVal, 0, ""))
load_map(cx, d, map_id) ==
  new_insn(cx, cx.u.this_ins, Insn("ld_map", 8, d, Imm(map_id), NoVal, 0, ""))

\* edge::edge(prev, next) stored as one of prev's two outgoing edges.  An
\* edge that was given a null block as next is an edge all the same: it is
\* kept in null_edges.
set_edge(cx, b, which, n) ==
  [cx EXCEPT !.p.blocks[b][which] = n,
             !.p.null_edges = IF n = NoBlock THEN @ \cup {<<b, which>>}
                              ELSE @ \ {<<b, which>>}]
set_fallthru(cx, b, n) == set_edge(cx, b, "fallthru", n)
set_taken(cx, b, n) == set_edge(cx, b, "taken", n)

\* program::mk_jcond: the conditional jump ends the block; taken edge to t,
\* fallthru edge to f.
mk_jcond(cx, c, s0, s1, t, f) ==
  LET b == cx.u.this_ins
      c1 == new_insn(cx, b, Insn("jcond", 0, NoVal, s0, s1, 0, c))
  IN IF c1.u.crash THEN c1 ELSE set_fallthru(set_taken(c1, b, t), b, f)

\* bpf_unparser::emit_jmp: the destination becomes the fallthru edge of the
\* current block, which is then no longer current.
emit_jmp(cx, b) ==
  IF ~in_block(cx) THEN [cx EXCEPT !.u.crash = TRUE]
  ELSE clear_block(set_fallthru(cx, cx.u.this_ins, b))

-----------------------------------------------------------------------------
(* bpf_unparser                                                            *)

\* struct globals, as far as the translator writes it: the interned
\* strings and the foreach_loop_info table.
NewGlobals == [interned_strings |-> <<>>, foreach_loop_info |-> <<>>]

\* bpf_unparser::bpf_unparser(p, g): no current block, no exit blocks, empty
\* stacks, this_in_arg0 NULL; constraints["MAXERRORS"] from the session's
\* -D macros (0 when absent).  error_status is not initialised by the
\* constructor.  crash marks a translator that ran into a failed assertion
\* or a null dereference, error one that threw a semantic_error.
UninitVal == [t |-> "uninit", v |-> 0, s |-> <<>>, fmt |-> FALSE, ft |-> pe_unknown]
NewUnparserFor(glob, maxerrors) ==
  [this_ins |-> NoBlock, ret0_block |-> NoBlock, exit_block |-> NoBlock,
   error_status |-> UninitVal, this_in_arg0 |-> NoVal,
   catch_jump |-> <<>>, catch_msg |-> <<>>,
   loop_break |-> <<>>, loop_cont |-> <<>>,
   func_return |-> <<>>, func_return_val |-> <<>>, func_calls |-> <<>>,
   MAXERRORS |-> maxerrors, glob |-> glob,
   result |-> NoVal, crash |-> FALSE, error |-> FALSE]

NewUnparser == NewUnparserFor(NewGlobals, 0)
NoUnparser == NewUnparser

\* throw SEMANTIC_ERROR(...)
throw(cx) == [cx EXCEPT !.u.error = TRUE]
Stopped(cx) == cx.u.error \/ cx.u.crash

\* Statement order: in Then([c \in {v} |-> e]) v is built first and e builds
\* on what it gave, c; a translator that stopped stays as it stopped.
\* Let([x \in {v} |-> e]) is e for the value x of v.
The(S) == CHOOSE r \in S : TRUE
Let(f) == The({f[x] : x \in DOMAIN f})
Then(f) == The({IF Stopped(c) THEN c ELSE f[c] : c \in DOMAIN f})

\* this_prog.use_tmp_space(bytes) from the translator: a failed assertion
\* ends the translator.
reserve_tmp_space(cx, bytes) ==
  LET p == use_tmp_space(cx.p, bytes)
  IN IF tmp_space_ok(p) THEN [cx EXCEPT !.p = p]
     ELSE [cx EXCEPT !.p = p, !.u.crash = TRUE]

-----------------------------------------------------------------------------
(* Integer helpers                                                         *)

\* Two's-complement bitwise operations on integers (floor division keeps
\* the sign bits: -1 is all ones).
RECURSIVE BitAnd(_, _)
BitAnd(x, y) ==
  IF x = 0 \/ y = 0 THEN 0
  ELSE IF x = -1 THEN y
  ELSE IF y = -1 THEN x
  ELSE 2 * BitAnd(x \div 2, y \div 2) + (IF x % 2 = 1 /\ y % 2 = 1 THEN 1 ELSE 0)

RECURSIVE BitOr(_, _)
BitOr(x, y) ==
  IF x = -1 \/ y = -1 THEN -1
  ELSE IF x = 0 THEN y
  ELSE IF y = 0 THEN x
  ELSE 2 * BitOr(x \div 2, y \div 2) + (IF x % 2 = 1 \/ y % 2 = 1 THEN 1 ELSE 0)

RECURSIVE Pow2(_)
Pow2(n) == IF n = 0 THEN 1 ELSE 2 * Pow2(n - 1)

-----------------------------------------------------------------------------
(* String copies: emit_simple_literal_str, bpf_unparser::emit_string_copy  *)

BPF_W == 4
BPF_DW == 8

\* The 32-bit immediate of word i of a literal: the bytes of src that fall
\* into the word, little-endian; the terminator and what follows stay 0.
LiteralByte(src, k) == IF k < Len(src) THEN src[k + 1] ELSE 0
LiteralWord(src, i) ==
  LiteralByte(src, i * 4) + 256 * LiteralByte(src, i * 4 + 1)
  + 65536 * LiteralByte(src, i * 4 + 2) + 16777216 * LiteralByte(src, i * 4 + 3)

\* A run of instructions linked one after the other into the current block.
new_insns(cx, seq) ==
  IF seq = <<>> THEN cx
  ELSE IF cx.u.this_ins = NoBlock \/ cx.u.this_ins > Len(cx.p.blocks)
  THEN [cx EXCEPT !.u.crash = TRUE]
  ELSE [cx EXCEPT !.p.blocks[cx.u.this_ins].insns = @ \o seq]

\* for (i = from; i < to; ++i) mk_st(BPF_W, dest, i * 4 + ofs, word(i))
StoreLiteralWords(cx, dest, ofs, src, from, to) ==
  new_insns(cx, [k \in 1..(to - from) |->
                   Insn("st", BPF_W, dest,
                        Imm(LiteralWord(src, from + k - 1)), NoVal,
                        (from + k - 1) * 4 + ofs, "")])

StoreZeroWords(cx, dest, ofs, from, to) ==
  new_insns(cx, [k \in 1..(to - from) |->
                   Insn("st", BPF_W, dest, Imm(0), NoVal,
                        (from + k - 1) * 4 + ofs, "")])

\* The faulty variant: the padding loop runs whether asked for or not.
emit_simple_literal_str_pad(cx, dest, ofs, src, zero_pad) ==
  LET str_words == (Len(src) + 1 + 3) \div 4
  IN Then([c1 \in {StoreLiteralWords(cx, dest, ofs, src, 0, str_words)} |->
     Then([c2 \in {StoreZeroWords(c1, dest, ofs, str_words, BPF_MAXSTRINGLEN \div 4)} |->
     [mk_binary(new_reg(c2), "add", Reg(NextReg(c2)), dest, Imm(ofs))
        EXCEPT !.u.result = Reg(NextReg(c2))]])])

\* emit_simple_literal_str: the words of the literal, then, with zero_pad,
\* zero words up to BPF_MAXSTRINGLEN; the result is dest + ofs in a register.
emit_simple_literal_str(cx, dest, ofs, src, zero_pad) ==
  LET str_bytes == Len(src) + 1
      str_words == (str_bytes + 3) \div 4
  IN Then([c1 \in {StoreLiteralWords(cx, dest, ofs, src, 0, str_words)} |->
     Then([c2 \in {IF zero_pad
          THEN StoreZeroWords(c1, dest, ofs, str_words, BPF_MAXSTRINGLEN \div 4)
          ELSE c1} |->
     [mk_binary(new_reg(c2), "add", Reg(NextReg(c2)), dest, Imm(ofs))
        EXCEPT !.u.result = Reg(NextReg(c2))]])])

\* The NUL test of byte j of a copied word: bN := (word >> 8j) & 0xff,
\* nZ := (-bN) | bN, all_nz := all_nz & nZ (all_nz := nZ for j = 0).
NulTestByte(word, all_nz, bN, nZ, j) ==
  << IF 8 * j # 0 THEN Insn("rsh", 8, bN, word, Imm(8 * j), 0, "")
                  ELSE Insn("mov", 8, bN, word, NoVal, 0, ""),
     Insn("and", 8, bN, bN, Imm(255), 0, ""),
     Insn("neg", 8, nZ, bN, NoVal, 0, ""),
     Insn("or", 8, nZ, nZ, bN, 0, ""),
     IF j = 0 THEN Insn("mov", 8, all_nz, nZ, NoVal, 0, "")
              ELSE Insn("and", 8, all_nz, all_nz, nZ, 0, "") >>

\* for (j = 0; j < 4; j++): the test of the four bytes of the word.
EmitNulTest(cx, word, all_nz, bN, nZ) ==
  new_insns(cx, NulTestByte(word, all_nz, bN, nZ, 0)
                \o NulTestByte(word, all_nz, bN, nZ, 1)
                \o NulTestByte(word, all_nz, bN, nZ, 2)
                \o NulTestByte(word, all_nz, bN, nZ, 3))

\* One round of the copy loop of emit_string_copy, in block_A[i]: load word
\* i, store it, and (but for the last word) test it for a NUL byte.
CopyWord(cx, dest, ofs, src, more, nul_block, next_block, i) ==
  LET word == Reg(NextReg(cx))
  IN Then([c5 \in {mk_st(mk_ld(new_reg(cx), BPF_W, word, src, i * 4),
                BPF_W, dest, i * 4 + ofs, word)} |->
       IF more
       THEN LET all_nz == Reg(NextReg(c5))
                bN == Reg(NextReg(c5) + 1)
                nZ == Reg(NextReg(c5) + 2)
            IN mk_jcond(EmitNulTest(new_reg(new_reg(new_reg(c5))),
                                    word, all_nz, bN, nZ),
                        "EQ", all_nz, Imm(0), nul_block, next_block)
       ELSE emit_jmp(c5, next_block)])

\* The copy loop of emit_string_copy from word i on.  lp carries the
\* context and the block vectors block_A and block_B.
RECURSIVE CopyWords(_, _, _, _, _, _, _, _)
CopyWords(lp, dest, ofs, src, zero_pad, return_block, str_words, i) ==
  IF i >= str_words \/ lp.cx.u.crash THEN lp
  ELSE
    LET more == i < str_words - 1
        a1 == NextBlock(lp.cx)
        b1 == NextBlock(lp.cx) + 1
        c2 == IF more /\ zero_pad THEN new_block(new_block(lp.cx))
              ELSE IF more THEN new_block(lp.cx)
              ELSE lp.cx
        block_A == IF more THEN Append(lp.block_A, a1) ELSE lp.block_A
        block_B == IF more /\ zero_pad THEN Append(lp.block_B, b1) ELSE lp.block_B
        next_block == IF more THEN a1 ELSE return_block
        nul_block == IF more /\ zero_pad THEN b1 ELSE return_block
    IN CopyWords([cx |-> CopyWord(set_block(c2, lp.block_A[i + 1]), dest, ofs,
                                  src, more, nul_block, next_block, i),
                  block_A |-> block_A, block_B |-> block_B],
                 dest, ofs, src, zero_pad, return_block, str_words, i + 1)

\* The zero-fill chain block_B[0..] of emit_string_copy (zero_pad only).
RECURSIVE ZeroFillBlocks(_, _, _, _, _, _, _)
ZeroFillBlocks(cx, block_B, dest, ofs, return_block, str_words, i) ==
  IF i >= str_words \/ cx.u.crash THEN cx
  ELSE ZeroFillBlocks(
         emit_jmp(mk_st(set_block(cx, block_B[i + 1]), BPF_W, dest,
                        i * 4 + ofs, Imm(0)),
                  IF i < str_words - 1 THEN block_B[i + 2] ELSE return_block),
         block_B, dest, ofs, return_block, str_words, i + 1)

\* The null_copy_block of emit_string_copy without zero_pad: an empty
\* string is stored and the result taken from it.
NullCopy(cx, dest, ofs, out, return_block) ==
  Then([n1 \in {emit_simple_literal_str(cx, dest, ofs, <<>>, FALSE)} |->
       emit_jmp(mk_mov(n1, out, n1.u.result), return_block)])

\* bpf_unparser::emit_string_copy
emit_string_copy(cx, dest, ofs, src, zero_pad) ==
  IF src.t = "str"
  THEN emit_simple_literal_str(cx, dest, ofs, src.s, zero_pad)
  ELSE
    LET str_bytes == BPF_MAXSTRINGLEN
        str_words == (str_bytes + 3) \div 4
        out == Reg(NextReg(cx))
        return_block == NextBlock(cx)
        null_copy_block == NextBlock(cx) + 1
        normal_block == NextBlock(cx) + 2
    IN Then([c2 \in {mk_jcond(new_block(new_block(new_block(new_reg(cx)))),
                     "EQ", src, Imm(0), null_copy_block, normal_block)} |->
       Then([c3 \in {IF ~zero_pad
            THEN NullCopy(set_block(c2, null_copy_block), dest, ofs, out,
                          return_block)
            ELSE c2} |->
       Let([lp \in {CopyWords([cx |-> set_block(c3, normal_block),
                      block_A |-> <<normal_block>>,
                      block_B |-> IF zero_pad THEN <<null_copy_block>>
                                  ELSE <<>>],
                     dest, ofs, src, zero_pad, return_block, str_words, 0)} |->
       Then([c5 \in {IF zero_pad
            THEN ZeroFillBlocks(lp.cx, lp.block_B, dest, ofs, return_block,
                                str_words, 0)
            ELSE lp.cx} |->
       [mk_binary(set_block(c5, return_block), "add", out, dest, Imm(ofs))
          EXCEPT !.u.result = out]])])])])

-----------------------------------------------------------------------------
(* Transport messages, the exit blocks, prologue and epilogue              *)

\* enum globals::perf_event_type
STP_EXIT == 0
STP_ERROR == 1
STP_STORE_ERROR_MSG == 2
STP_PRINT_ERROR_MSG == 3
STP_PRINTF_START == 4
STP_PRINTF_END == 5
STP_PRINTF_FORMAT == 6
STP_PRINTF_ARG_LONG == 7
STP_PRINTF_ARG_STR == 8

\* globals::internal_map_idx, perf_event_map_idx, enum internal_global_idx
internal_map_idx == 0
perf_event_map_idx == 1
EXIT == 0
ERRORS == 1

\* The flags immediate 0xffffffff of perf_event_output, as a 32-bit value.
BPF_F_CURRENT_CPU == -1

\* sizeof(BPF_TRANSPORT_VAL), sizeof(BPF_TRANSPORT_ARG): both uint64_t.
SIZEOF_BPF_TRANSPORT_VAL == 8
SIZEOF_BPF_TRANSPORT_ARG == 8

\* globals::intern_string: the index of str in interned_strings (from 0),
\* appended when it is not there yet.
IsInterned(glob, str) ==
  \E i \in 1..Len(glob.interned_strings) : glob.interned_strings[i] = str
intern_string_idx(glob, str) ==
  IF IsInterned(glob, str)
  THEN (CHOOSE i \in 1..Len(glob.interned_strings) :
          glob.interned_strings[i] = str) - 1
  ELSE Len(glob.interned_strings)
intern_string(glob, str) ==
  IF IsInterned(glob, str) THEN glob
  ELSE [glob EXCEPT !.interned_strings = Append(@, str)]

\* emit_transport_msg, "harmonize the information in arg, format_type, msg".
TransportFormatType(msg, arg, format_type) ==
  IF arg.t = "none" THEN format_type
  ELSE LET f1 == IF format_type = pe_unknown THEN arg.ft ELSE format_type
           f2 == IF arg.t = "str" /\ arg.fmt /\ f1 = pe_unknown
                 THEN pe_string ELSE f1
       IN IF msg = STP_PRINTF_ARG_LONG /\ f2 = pe_unknown THEN pe_long
          ELSE IF msg = STP_PRINTF_ARG_STR /\ f2 = pe_unknown THEN pe_string
          ELSE f2

\* bpf_unparser::emit_transport_msg: the argument (if any) is stored at
\* arg_ofs, the message type below it at msg_ofs, and perf_event_output is
\* called on the bytes from msg_ofs up to the frame pointer.
emit_transport_msg(cx, msg, arg, format_type) ==
  LET ft == TransportFormatType(msg, arg, format_type)
      interned == arg.t = "str" /\ arg.fmt
      size0 == IF arg.t = "none" THEN 0
               ELSE IF ft = pe_long THEN 8
               ELSE IF interned THEN SIZEOF_BPF_TRANSPORT_ARG
               ELSE BPF_MAXSTRINGLEN + cx.p.max_tmp_space
      arg_size == IF size0 % 8 # 0 THEN size0 + (8 - (size0 % 8)) ELSE size0
      arg_ofs == 0 - arg_size
      ofs0 == arg_ofs - SIZEOF_BPF_TRANSPORT_VAL
      msg_ofs == IF ((0 - ofs0) % 8) # 0 THEN ofs0 - (8 - ((0 - ofs0) % 8)) ELSE ofs0
      frame == lookup_reg(BPF_REG_10)
      ctx == IF cx.u.this_in_arg0.t = "none" THEN Imm(0) ELSE cx.u.this_in_arg0
  IN IF arg.t # "none" /\ ft \notin {pe_long, pe_string}
     THEN [cx EXCEPT !.u.crash = TRUE]
     ELSE
     Then([c1 \in {reserve_tmp_space(cx, 0 - msg_ofs)} |->
     Then([c2 \in {IF arg.t = "none" THEN c1
          ELSE IF ft = pe_long THEN mk_st(c1, BPF_DW, frame, arg_ofs, arg)
          ELSE IF interned
          THEN mk_st([c1 EXCEPT !.u.glob = intern_string(@, arg.s)],
                     BPF_DW, frame, arg_ofs,
                     Imm(intern_string_idx(c1.u.glob, arg.s)))
          ELSE emit_string_copy(c1, frame, arg_ofs, arg, FALSE)} |->
     Then([c3 \in {mk_st(c2, BPF_DW, frame, msg_ofs, Imm(msg))} |->
     Then([c4 \in {mk_mov(c3, lookup_reg(BPF_REG_1), ctx)} |->
     Then([c5 \in {load_map(c4, lookup_reg(BPF_REG_2), perf_event_map_idx)} |->
     Then([c6 \in {mk_mov(c5, lookup_reg(BPF_REG_3), Imm(BPF_F_CURRENT_CPU))} |->
     Then([c7 \in {mk_binary(c6, "add", lookup_reg(BPF_REG_4), frame, Imm(msg_ofs))} |->
     Then([c8 \in {mk_mov(c7, lookup_reg(BPF_REG_5), Imm(0 - msg_ofs))} |->
     mk_call(c8, "perf_event_output", 5)])])])])])])])])

\* Store the key of an internal global at frame + ofs and call
\* map_lookup_elem(internal map, frame + ofs).
LookupInternal(cx, map_key, ofs) ==
  LET frame == lookup_reg(BPF_REG_10)
  IN Then([c1 \in {mk_st(cx, BPF_W, frame, ofs, Imm(map_key))} |->
     Then([c2 \in {reserve_tmp_space(c1, 0 - ofs)} |->
     Then([c3 \in {load_map(c2, lookup_reg(BPF_REG_1), internal_map_idx)} |->
     Then([c4 \in {mk_binary(c3, "add", lookup_reg(BPF_REG_2), frame, Imm(ofs))} |->
     mk_call(c4, "map_lookup_elem", 2)])])])])

\* The faulty variant: the count is stored back as it was loaded.
IncrementErrors_unincremented(cx, exit_block) ==
  LET frame == lookup_reg(BPF_REG_10)
      r0 == lookup_reg(BPF_REG_0)
      limit == Imm(cx.u.MAXERRORS)
      error_count == Reg(NextReg(cx))
  IN Then([c8 \in {mk_ld(new_reg(cx), BPF_DW, error_count, r0, 0)} |->
     Then([c10 \in {reserve_tmp_space(mk_st(c8, BPF_DW, frame, -8, error_count), 8)} |->
     Then([c11 \in {reserve_tmp_space(mk_st(c10, BPF_W, frame, -12, Imm(ERRORS)), 4)} |->
     Then([c12 \in {load_map(c11, lookup_reg(BPF_REG_1), internal_map_idx)} |->
     Then([c13 \in {mk_binary(c12, "add", lookup_reg(BPF_REG_2), frame, Imm(-12))} |->
     Then([c14 \in {mk_binary(c13, "add", lookup_reg(BPF_REG_3), frame, Imm(-8))} |->
     Then([c15 \in {mk_mov(c14, lookup_reg(BPF_REG_4), Imm(0))} |->
     Then([c16 \in {mk_call(c15, "map_update_elem", 4)} |->
     Then([c17 \in {mk_jcond(new_block(c16), "LE", error_count, limit,
                   exit_block, NextBlock(c16))} |->
     Then([c19 \in {emit_transport_msg(set_block(c17, NextBlock(c16)), STP_ERROR,
                             NoVal, pe_unknown)} |->
     emit_jmp(c19, exit_block)])])])])])])])])])])

\* add_epilogue from increment_block on: the error count is loaded,
\* incremented and stored back; past the limit the hard error is sent.
IncrementErrors(cx, exit_block) ==
  LET frame == lookup_reg(BPF_REG_10)
      r0 == lookup_reg(BPF_REG_0)
      limit == Imm(cx.u.MAXERRORS)
      error_count == Reg(NextReg(cx))
  IN Then([c8 \in {mk_ld(new_reg(cx), BPF_DW, error_count, r0, 0)} |->
     Then([c9 \in {mk_binary(c8, "add", error_count, error_count, Imm(1))} |->
     Then([c10 \in {reserve_tmp_space(mk_st(c9, BPF_DW, frame, -8, error_count), 8)} |->
     Then([c11 \in {reserve_tmp_space(mk_st(c10, BPF_W, frame, -12, Imm(ERRORS)), 4)} |->
     Then([c12 \in {load_map(c11, lookup_reg(BPF_REG_1), internal_map_idx)} |->
     Then([c13 \in {mk_binary(c12, "add", lookup_reg(BPF_REG_2), frame, Imm(-12))} |->
     Then([c14 \in {mk_binary(c13, "add", lookup_reg(BPF_REG_3), frame, Imm(-8))} |->
     Then([c15 \in {mk_mov(c14, lookup_reg(BPF_REG_4), Imm(0))} |->
     Then([c16 \in {mk_call(c15, "map_update_elem", 4)} |->
     Then([c17 \in {mk_jcond(new_block(c16), "LE", error_count, limit,
                   exit_block, NextBlock(c16))} |->
     Then([c19 \in {emit_transport_msg(set_block(c17, NextBlock(c16)), STP_ERROR,
                             NoVal, pe_unknown)} |->
     emit_jmp(c19, exit_block)])])])])])])])])])])])

\* bpf_unparser::add_epilogue, emitted into the exit block: with the error
\* status set, print the error message, increment the error count and,
\* past the limit, send the hard error; every path ends in the local
\* exit_block, which is left current.
add_epilogue(cx) ==
  LET i0 == Imm(0)
      r0 == lookup_reg(BPF_REG_0)
      error_block == NextBlock(cx)
      exit_block == NextBlock(cx) + 1
  IN Then([c2 \in {mk_jcond(new_block(new_block(cx)), "EQ", i0, cx.u.error_status,
                   exit_block, error_block)} |->
     Then([c4 \in {emit_transport_msg(set_block(c2, error_block), STP_PRINT_ERROR_MSG,
                             NoVal, pe_unknown)} |->
     Then([c5 \in {LookupInternal(c4, ERRORS, -4)} |->
     Then([c6 \in {mk_jcond(new_block(c5), "EQ", r0, i0, exit_block, NextBlock(c5))} |->
     Then([c20 \in {IncrementErrors(set_block(c6, NextBlock(c5)), exit_block)} |->
     set_block(c20, exit_block)])])])])])

\* bpf_unparser::get_exit_block: made once; the epilogue and the exit
\* instruction; the block current before stays current.  The block is in
\* cx.u.exit_block afterwards.
get_exit_block(cx) ==
  IF cx.u.exit_block # NoBlock THEN cx
  ELSE Then([c2 \in {add_epilogue(set_block(new_block(cx), NextBlock(cx)))} |->
       Then([c3 \in {mk_exit(c2)} |->
       [set_block(c3, cx.u.this_ins) EXCEPT !.u.exit_block = NextBlock(cx)]])])

\* bpf_unparser::get_ret0_block: made once; mov r0, 0 and a fallthru edge to
\* the exit block.  The block is in cx.u.ret0_block afterwards.
get_ret0_block(cx) ==
  IF cx.u.ret0_block # NoBlock THEN cx
  ELSE LET b == NextBlock(cx)
       IN Then([c1 \in {new_insn(new_block(cx), b,
                        Insn("mov", 8, lookup_reg(BPF_REG_0), Imm(0), NoVal, 0, ""))} |->
          Then([c2 \in {get_exit_block(c1)} |->
          [set_fallthru(c2, b, c2.u.exit_block) EXCEPT !.u.ret0_block = b]])])

\* The faulty variant: the error status is cleared and nothing is checked.
add_prologue_nocheck(cx) ==
  LET error_status == Reg(NextReg(cx))
  IN mk_mov([new_reg(cx) EXCEPT !.u.error_status = error_status],
            error_status, Imm(0))

\* A lookup of an internal global in the prologue: a null result leaves for
\* the exit block; the value is loaded into a new register in a new block.
PrologueLoad(cx, map_key) ==
  LET r0 == lookup_reg(BPF_REG_0)
  IN Then([c3 \in {LookupInternal(cx, map_key, -4)} |->
     Then([c4 \in {mk_jcond(new_block(c3), "EQ", r0, Imm(0), cx.u.exit_block,
                   NextBlock(c3))} |->
     Then([c5 \in {set_block(c4, NextBlock(c3))} |->
     mk_ld(new_reg(c5), BPF_DW, Reg(NextReg(c5)), r0, 0)])])])

\* bpf_unparser::add_prologue: clear the error status, then leave for the
\* exit block when the exit flag cannot be read or is 1, or when the error
\* count cannot be read or is above the limit.
add_prologue(cx) ==
  LET limit == Imm(cx.u.MAXERRORS)
      error_status == Reg(NextReg(cx))
  IN Then([c1 \in {mk_mov([new_reg(cx) EXCEPT !.u.error_status = error_status],
                 error_status, Imm(0))} |->
     Then([c2 \in {get_exit_block(c1)} |->
     Then([c5 \in {PrologueLoad(c2, EXIT)} |->
     Then([c6 \in {mk_jcond(new_block(c5), "EQ", Reg(NextReg(c5) - 1), Imm(1),
                   c5.u.exit_block, NextBlock(c5))} |->
     Then([c9 \in {PrologueLoad(set_block(c6, NextBlock(c5)), ERRORS)} |->
     Then([c10 \in {mk_jcond(new_block(c9), "GT", Reg(NextReg(c9) - 1), limit,
                   c9.u.exit_block, NextBlock(c9))} |->
     set_block(c10, NextBlock(c9))])])])])])])

-----------------------------------------------------------------------------
(* Statements                                                              *)

Back(seq) == seq[Len(seq)]
PopBack(seq) == SubSeq(seq, 1, Len(seq) - 1)

\* The faulty variant: the jump goes to the outermost installed catch block.
jump_to_catch_outermost(cx, msg) ==
  LET error_block == NextBlock(cx)
  IN Then([c3 \in {emit_jmp(new_block([cx EXCEPT !.u.catch_msg = Append(@, msg)]),
                   IF cx.u.catch_jump # <<>> THEN cx.u.catch_jump[1]
                   ELSE error_block)} |->
     set_block(c3, error_block)])

\* visit_embeddedcode, stmt.kind == "jump_to_catch": the message is pushed
\* on catch_msg; the jump goes to the innermost catch block, or, outside
\* every try, to the new error_block, which becomes current either way.
jump_to_catch(cx, msg) ==
  LET error_block == NextBlock(cx)
  IN Then([c3 \in {emit_jmp(new_block([cx EXCEPT !.u.catch_msg = Append(@, msg)]),
                   IF cx.u.catch_jump # <<>> THEN Back(cx.u.catch_jump)
                   ELSE error_block)} |->
     set_block(c3, error_block)])

\* visit_embeddedcode, stmt.kind == "register_error"
register_error(cx, msg) ==
  Then([c1 \in {mk_mov(cx, cx.u.error_status, Imm(1))} |->
       emit_transport_msg(c1, STP_STORE_ERROR_MSG, msg, pe_string)])

\* visit_embeddedcode, stmt.kind == "terminate"
terminate(cx) ==
  LET join_block == NextBlock(cx)
  IN Then([c1 \in {get_exit_block(new_block(cx))} |->
     Then([c2 \in {emit_jmp(c1, c1.u.exit_block)} |->
     set_block(c2, join_block)])])

\* bpf_unparser::visit_next_statement: refused inside an inlined function;
\* in a probe body a jump to the member exit_block.  While no exit block
\* has been made the member is NULL and the edge constructor is handed a
\* null block: the translator crashes, or the edge to nowhere is kept
\* (null_edge).
visit_next_statement(cx, null_edge) ==
  IF cx.u.func_return # <<>> THEN throw(cx)
  ELSE IF cx.u.exit_block = NoBlock /\ in_block(cx) /\ ~null_edge
  THEN [cx EXCEPT !.u.crash = TRUE]
  ELSE emit_jmp(cx, cx.u.exit_block)

\* bpf_unparser::visit_symbol for a global scalar g (idx, map_id, is_stat,
\* type): look the value up; a null result leaves for the exit block.
visit_symbol(cx, g) ==
  IF g.is_stat THEN throw(cx)
  ELSE
    LET frame == lookup_reg(BPF_REG_10)
        r0 == lookup_reg(BPF_REG_0)
    IN Then([c1 \in {reserve_tmp_space(mk_st(cx, BPF_W, frame, -4, Imm(g.idx)), 4)} |->
       Then([c2 \in {load_map(c1, lookup_reg(BPF_REG_1), g.map_id)} |->
       Then([c3 \in {mk_binary(c2, "add", lookup_reg(BPF_REG_2), frame, Imm(-4))} |->
       Then([c4 \in {mk_call(c3, "map_lookup_elem", 2)} |->
       Then([c5 \in {get_exit_block(new_block(c4))} |->
       Then([c6 \in {mk_jcond(c5, "EQ", r0, Imm(0), c5.u.exit_block, NextBlock(c4))} |->
       Then([c7 \in {set_block(c6, NextBlock(c4))} |->
       Then([c8 \in {IF g.type = pe_long
            THEN mk_ld(new_reg(c7), BPF_DW, Reg(NextReg(c7)), r0, 0)
            ELSE IF g.type = pe_string
            THEN mk_mov(new_reg(c7), Reg(NextReg(c7)), r0)
            ELSE throw(new_reg(c7))} |->
       [c8 EXCEPT !.u.result = Reg(NextReg(c7))]])])])])])])])])

\* bpf_unparser::visit_try_block up to the protected body: the catch block
\* and the join block are made (in this order) and the catch block is
\* installed as the innermost catch target.
visit_try_block_enter(cx) ==
  LET catch_block == NextBlock(cx)
      c1 == new_block(new_block(cx))
  IN [c1 EXCEPT !.u.catch_jump = Append(@, catch_block)]

\* visit_try_block between the protected body and the catch body.  With a
\* catch variable the message pushed last is moved into it; reading
\* catch_msg.back() of an empty vector yields anything (garbage) or crashes.
visit_try_block_catch(cx, catch_block, join_block, catch_var, garbage) ==
  Then([c2 \in {IF in_block(cx)
       THEN emit_jmp([cx EXCEPT !.u.catch_jump = PopBack(@)], join_block)
       ELSE [cx EXCEPT !.u.catch_jump = PopBack(@)]} |->
  Then([c3 \in {set_block(c2, catch_block)} |->
    IF catch_var.t = "none" THEN c3
    ELSE IF c3.u.catch_msg = <<>>
    THEN (IF garbage THEN mk_mov(c3, catch_var, UninitVal)
          ELSE [c3 EXCEPT !.u.crash = TRUE])
    ELSE mk_mov([c3 EXCEPT !.u.catch_msg = PopBack(@)], catch_var,
                Back(c3.u.catch_msg))])])

\* visit_try_block after the catch body.
visit_try_block_leave(cx, join_block) ==
  set_block(IF in_block(cx) THEN emit_jmp(cx, join_block) ELSE cx, join_block)

\* The faulty variant: the four blocks are made before the target is looked at.
visit_for_loop_enter_late(cx) ==
  IF cx.p.target = target_kernel_bpf
  THEN throw(new_block(new_block(new_block(new_block(cx)))))
  ELSE set_block([emit_jmp(new_block(new_block(new_block(new_block(cx)))),
                           NextBlock(cx) + 2)
                    EXCEPT !.u.loop_break = Append(@, NextBlock(cx) + 3),
                           !.u.loop_cont = Append(@, NextBlock(cx) + 1)],
                 NextBlock(cx))

\* bpf_unparser::visit_for_loop up to the loop body (init statement empty):
\* on the kernel target the loop is refused before anything is made.
visit_for_loop_enter(cx) ==
  IF cx.p.target = target_kernel_bpf THEN throw(cx)
  ELSE
    LET body_block == NextBlock(cx)
        test_block == NextBlock(cx) + 2
        join_block == NextBlock(cx) + 3
        iter_block == NextBlock(cx) + 1
        c1 == new_block(new_block(new_block(new_block(cx))))
    IN IF ~in_block(c1) THEN c1
       ELSE set_block([emit_jmp(c1, test_block) EXCEPT
                         !.u.loop_break = Append(@, join_block),
                         !.u.loop_cont = Append(@, iter_block)],
                      body_block)

\* The size of one key column of a foreach: 8 for a long, BPF_MAXSTRINGLEN
\* for a string.
ColumnSize(type) == IF type = pe_long THEN 8 ELSE BPF_MAXSTRINGLEN

\* key_offsets[k] (k from 1): the sizes of the columns before column k.
RECURSIVE KeyOffset(_, _)
KeyOffset(index_types, k) ==
  IF k <= 1 THEN 0
  ELSE KeyOffset(index_types, k - 1) + ColumnSize(index_types[k - 1])

\* The locals of visit_foreach_loop, fixed before the loop body is visited:
\* the limit register (or the immediate -1), the key reference, the loop id
\* and the four blocks, made in the order body, load_1, iter, join.
ForeachLocals(cx, s) ==
  LET composite_key == Len(s.keys) # 1
      has_limit == s.limit.t # "none"
      r == NextReg(cx)
      b == NextBlock(cx)
  IN [limit |-> IF has_limit THEN Reg(r) ELSE Imm(-1),
      keyref |-> IF composite_key THEN Reg(IF has_limit THEN r + 1 ELSE r)
                 ELSE s.keys[1],
      nregs |-> (IF has_limit THEN 1 ELSE 0) + (IF composite_key THEN 1 ELSE 0),
      id |-> Imm(Len(cx.u.glob.foreach_loop_info)),
      body_block |-> b, load_block_1 |-> b + 1, iter_block |-> b + 2,
      join_block |-> b + 3]

\* foreach_info as visit_foreach_loop records it.
ForeachInfo(s) ==
  [sort_direction |-> s.sort_direction, sort_column |-> s.sort_column,
   keysize |-> KeyOffset(s.index_types, Len(s.index_types) + 1),
   sort_column_size |-> IF s.sort_column \in 1..Len(s.index_types)
                        THEN ColumnSize(s.index_types[s.sort_column]) ELSE 0,
   sort_column_ofs |-> IF Len(s.index_types) = 1 THEN -1
                       ELSE IF s.sort_column \in 1..Len(s.index_types)
                       THEN KeyOffset(s.index_types, s.sort_column) ELSE 0]

\* The call map_get_next_key(map, key, frame - 16, id, limit) and the jump
\* that leaves the loop when it does not return 0.
EmitGetNextKey(cx, s, f, seed) ==
  LET frame == lookup_reg(BPF_REG_10)
  IN Then([c1 \in {load_map(cx, lookup_reg(BPF_REG_1), s.map_id)} |->
     Then([c2 \in {IF seed THEN mk_mov(c1, lookup_reg(BPF_REG_2), Imm(0))
          ELSE mk_binary(c1, "add", lookup_reg(BPF_REG_2), frame, Imm(-8))} |->
     Then([c3 \in {mk_binary(c2, "add", lookup_reg(BPF_REG_3), frame, Imm(-16))} |->
     Then([c4 \in {mk_mov(c3, lookup_reg(BPF_REG_4), f.id)} |->
     Then([c5 \in {mk_mov(c4, lookup_reg(BPF_REG_5), f.limit)} |->
     Then([c6 \in {mk_call(c5, "map_get_next_key", 5)} |->
     mk_jcond(c6, "NE", lookup_reg(BPF_REG_0), Imm(0), f.join_block,
              f.load_block_1)])])])])])])

\* bpf_unparser::visit_foreach_loop up to the loop body: the refusals, the
\* foreach_info record, the limit register, the seeding get-next-key call.
visit_foreach_loop_enter(cx, s) ==
  IF cx.p.target = target_kernel_bpf THEN throw(cx)
  ELSE IF s.array_slice THEN throw(cx)
  ELSE IF \E k \in 1..Len(s.index_types) :
            s.index_types[k] \notin {pe_long, pe_string}
  THEN throw(cx)
  ELSE
    LET f == ForeachLocals(cx, s)
    IN Then([c1 \in {IF s.is_stat /\ s.sort_column = 0
            THEN throw([cx EXCEPT !.u.glob.foreach_loop_info =
                                    Append(@, ForeachInfo(s))])
            ELSE [cx EXCEPT !.u.glob.foreach_loop_info = Append(@, ForeachInfo(s)),
                            !.p.nregs = @ + f.nregs]} |->
       Then([c3 \in {reserve_tmp_space(new_block(new_block(new_block(new_block(c1)))), 16)} |->
       Then([c4 \in {IF s.limit.t # "none" THEN mk_mov(c3, f.limit, s.limit) ELSE c3} |->
       Then([c5 \in {EmitGetNextKey(c4, s, f, TRUE)} |->
       [set_block(c5, f.body_block)
          EXCEPT !.u.loop_break = Append(@, f.join_block),
                 !.u.loop_cont = Append(@, f.iter_block)]])])])])

\* PR23478: unpack keyref into the individual indices, from index k on.
RECURSIVE UnpackKeys(_, _, _, _)
UnpackKeys(cx, s, f, k) ==
  IF k > Len(s.keys) \/ Stopped(cx) THEN cx
  ELSE UnpackKeys(
         IF s.index_types[k] = pe_long
         THEN mk_ld(cx, BPF_DW, s.keys[k], f.keyref, KeyOffset(s.index_types, k))
         ELSE IF s.index_types[k] = pe_string
         THEN mk_binary(cx, "add", s.keys[k], f.keyref,
                        Imm(KeyOffset(s.index_types, k)))
         ELSE throw(cx),
         s, f, k + 1)

\* "If the foreach loop requests a value, retrieve the value".
LoadForeachValue(cx, s, f) ==
  IF s.is_stat THEN throw(cx)
  ELSE
    LET frame == lookup_reg(BPF_REG_10)
        r0 == lookup_reg(BPF_REG_0)
        load_block_2 == NextBlock(cx)
    IN Then([c1 \in {load_map(new_block(cx), lookup_reg(BPF_REG_1), s.map_id)} |->
       Then([c2 \in {IF Len(s.keys) = 1 /\ s.index_types[1] = pe_long
            THEN mk_binary(c1, "add", lookup_reg(BPF_REG_2), frame, Imm(-16))
            ELSE mk_mov(c1, lookup_reg(BPF_REG_2), f.keyref)} |->
       Then([c3 \in {mk_call(c2, "map_lookup_elem", 2)} |->
       Then([c4 \in {mk_jcond(c3, "EQ", r0, Imm(0), f.join_block, load_block_2)} |->
       Then([c5 \in {set_block(c4, load_block_2)} |->
         IF s.value_type = pe_long THEN mk_ld(c5, BPF_DW, s.value, r0, 0)
         ELSE IF s.value_type = pe_string THEN mk_mov(c5, s.value, r0)
         ELSE throw(c5)])])])])])

\* visit_foreach_loop from the end of the loop body to the load of the
\* value: the iter block with the next get-next-key call, the load block
\* that takes the new key and unpacks it.
ForeachNextKey(cx, s, f) ==
  LET frame == lookup_reg(BPF_REG_10)
  IN Then([c2 \in {IF in_block(cx)
          THEN emit_jmp([cx EXCEPT !.u.loop_cont = PopBack(@),
                                   !.u.loop_break = PopBack(@)], f.iter_block)
          ELSE [cx EXCEPT !.u.loop_cont = PopBack(@),
                          !.u.loop_break = PopBack(@)]} |->
     Then([c3 \in {mk_st(set_block(c2, f.iter_block), BPF_DW, frame, -8, f.keyref)} |->
     Then([c4 \in {EmitGetNextKey(c3, s, f, FALSE)} |->
     Then([c5 \in {mk_ld(set_block(c4, f.load_block_1), BPF_DW, f.keyref, frame, -16)} |->
     Then([c6 \in {IF Len(s.keys) # 1 THEN UnpackKeys(c5, s, f, 1) ELSE c5} |->
       IF s.value.t # "none" THEN LoadForeachValue(c6, s, f) ELSE c6])])])])])

\* The faulty variant: the iteration limit is never decremented.
visit_foreach_loop_leave_nodec(cx, s, f) ==
  Then([c7 \in {ForeachNextKey(cx, s, f)} |->
       set_block(emit_jmp(c7, f.body_block), f.join_block)])

\* bpf_unparser::visit_foreach_loop after the loop body: the iter block
\* with the next get-next-key call, the load block that takes the new key,
\* unpacks it, loads the value, decrements the limit and goes back to the
\* body; the join block is left current.
visit_foreach_loop_leave(cx, s, f) ==
  Then([c7 \in {ForeachNextKey(cx, s, f)} |->
  Then([c8 \in {IF s.limit.t # "none"
       THEN mk_binary(c7, "add", f.limit, f.limit, Imm(-1)) ELSE c7} |->
       set_block(emit_jmp(c8, f.body_block), f.join_block)])])

\* The faulty variant: break leaves the outermost loop.
visit_break_statement_outermost(cx) ==
  IF cx.u.loop_break = <<>> THEN throw(cx)
  ELSE emit_jmp(cx, cx.u.loop_break[1])

\* bpf_unparser::visit_break_statement, visit_continue_statement
visit_break_statement(cx) ==
  IF cx.u.loop_break = <<>> THEN throw(cx)
  ELSE emit_jmp(cx, Back(cx.u.loop_break))
visit_continue_statement(cx) ==
  IF cx.u.loop_cont = <<>> THEN throw(cx)
  ELSE emit_jmp(cx, Back(cx.u.loop_cont))

-----------------------------------------------------------------------------
(* Formatted printing                                                      *)

BPF_MAXFORMATLEN == 256
BPF_MAXPRINTFARGS == 32
BPF_MAXSPRINTFARGS == 3

\* The place before j where the run of characters c that ends just before
\* j begins: the last place whose character is not c (0 when there is none).
RunStart(str, j, c) ==
  CHOOSE k \in 0..(j - 1) :
    /\ k = 0 \/ str[k] # c
    /\ \A i \in (k + 1)..(j - 1) : str[i] = c

\* translate_escapes for strings without octal and hex escapes: after a
\* backslash f, n, r, t, v give the control character, any other character
\* stands for itself.  The scan of the code reads a character as escaped
\* exactly when an odd number of backslashes runs up to it; an unescaped
\* backslash gives no character of its own.
EscapedAt(str, j) == ((j - 1 - RunStart(str, j, 92)) % 2) = 1
EscapeOf(c) ==
  CASE c = 102 -> 12
    [] c = 110 -> 10
    [] c = 114 -> 13
    [] c = 116 -> 9
    [] c = 118 -> 11
    [] OTHER -> c
Translated(x) == x.out
translate_escapes_marks(str) ==
  [j \in 1..Len(str) |->
     IF EscapedAt(str, j) THEN [out |-> TRUE, c |-> EscapeOf(str[j])]
     ELSE [out |-> str[j] # 92, c |-> str[j]]]
translate_escapes(str) ==
  Let([kept \in {SelectSeq(translate_escapes_marks(str), Translated)} |->
    [j \in 1..Len(kept) |-> kept[j].c]])

\* The number of non-literal components print_format::string_to_components
\* finds in a format of plain conversions: every % that is not part of %%,
\* that is the last % of every run of an odd number of %.
NComponents(format) ==
  Cardinality({j \in 1..Len(format) :
                 /\ format[j] = 37
                 /\ j = Len(format) \/ format[j + 1] # 37
                 /\ ((j - 1 - RunStart(format, j, 37)) % 2) = 0})

\* emit_expr of an argument expression: a literal number or string is a
\* value and emits nothing, a global is looked up (visit_symbol).
emit_expr(cx, ex) ==
  IF ex.k = "number" THEN [cx EXCEPT !.u.result = Imm(ex.v)]
  ELSE IF ex.k = "string"
  THEN (IF Len(translate_escapes(ex.s)) + 1 > BPF_MAXSTRINGLEN THEN throw(cx)
        ELSE [cx EXCEPT !.u.result = Str(translate_escapes(ex.s))])
  ELSE visit_symbol(cx, ex.g)

\* visit_print_format: "for (i = 0; i < nargs; ++i) actual.push_back(...)":
\* every argument is evaluated, in order, and marked with its type.
RECURSIVE EvalArgs(_, _, _)
EvalArgs(r, args, i) ==
  IF i > Len(args) \/ Stopped(r.cx) THEN r
  ELSE EvalArgs(Let([c1 \in {emit_expr(r.cx, args[i])} |->
                      [cx |-> c1,
                       actual |-> Append(r.actual,
                                         [c1.u.result EXCEPT !.ft = args[i].type])]]),
                args, i + 1)

\* printf_arg_type for an argument of known type (visit_print_format lets
\* no other through).
printf_arg_type(arg) ==
  IF arg.ft = pe_long THEN STP_PRINTF_ARG_LONG ELSE STP_PRINTF_ARG_STR

\* for (i = 0; i < nargs; ++i) emit_transport_msg(printf_arg_type(...), actual[i])
RECURSIVE EmitArgMsgs(_, _, _)
EmitArgMsgs(cx, actual, i) ==
  IF i > Len(actual) \/ Stopped(cx) THEN cx
  ELSE EmitArgMsgs(emit_transport_msg(cx, printf_arg_type(actual[i]), actual[i],
                                      pe_unknown),
                   actual, i + 1)

\* for (i = 0; i < nargs; ++i) emit_mov(BPF_REG_3 + i, actual[i])
RECURSIVE MoveSprintfArgs(_, _, _)
MoveSprintfArgs(cx, actual, i) ==
  IF i > Len(actual) THEN cx
  ELSE MoveSprintfArgs(mk_mov(cx, lookup_reg(BPF_REG_3 + i - 1), actual[i]),
                       actual, i + 1)

\* The faulty variant: the END message is sent before the arguments.
emit_print_format_end_first(cx, format, actual, print_to_stream) ==
  Then([c1 \in {emit_transport_msg(cx, STP_PRINTF_START, Imm(Len(actual)), pe_long)} |->
  Then([c2 \in {emit_transport_msg(c1, STP_PRINTF_FORMAT, FormatStr(format), pe_unknown)} |->
  Then([c3 \in {emit_transport_msg(c2, STP_PRINTF_END, NoVal, pe_unknown)} |->
  Then([c4 \in {EmitArgMsgs(c3, actual, 1)} |->
  [c4 EXCEPT !.u.result = NoVal]])])])])

\* bpf_unparser::emit_print_format: sprintf is an ordinary helper call; a
\* print to the stream is START(nargs), FORMAT(format), one message per
\* argument, END.
emit_print_format(cx, format, actual, print_to_stream) ==
  IF ~print_to_stream
  THEN (IF cx.p.target = target_kernel_bpf THEN throw(cx)
        ELSE IF Len(actual) > BPF_MAXSPRINTFARGS THEN throw(cx)
        ELSE
        Then([c1 \in {mk_mov(cx, lookup_reg(BPF_REG_1), FormatStr(format))} |->
        Then([c2 \in {mk_mov(c1, lookup_reg(BPF_REG_2), Imm(Len(format) + 1))} |->
        Then([c3 \in {MoveSprintfArgs(c2, actual, 1)} |->
        Then([c4 \in {mk_call(c3, "sprintf", Len(actual) + 2)} |->
        [c4 EXCEPT !.u.result = lookup_reg(BPF_REG_0)]])])])]))
  ELSE IF NComponents(format) # Len(actual) THEN throw(cx)
  ELSE
    Then([c1 \in {emit_transport_msg(cx, STP_PRINTF_START, Imm(Len(actual)), pe_long)} |->
    Then([c2 \in {emit_transport_msg(c1, STP_PRINTF_FORMAT, FormatStr(format), pe_unknown)} |->
    Then([c3 \in {EmitArgMsgs(c2, actual, 1)} |->
    Then([c4 \in {emit_transport_msg(c3, STP_PRINTF_END, NoVal, pe_unknown)} |->
    [c4 EXCEPT !.u.result = NoVal]])])])])

\* The format visit_print_format makes up when the script gave none: one
\* directive per argument, the delimiter (with % doubled) between them, a
\* newline at the end on request.
RECURSIVE EscapePercent(_, _)
EscapePercent(dstr, j) ==
  IF j > Len(dstr) THEN <<>>
  ELSE (IF dstr[j] = 37 THEN <<37, 37>> ELSE <<dstr[j]>>)
       \o EscapePercent(dstr, j + 1)

RECURSIVE SynthDirectives(_, _, _)
SynthDirectives(e, delim, i) ==
  IF i > Len(e.args) THEN <<>>
  ELSE (IF i > 1 /\ e.print_with_delim THEN delim ELSE <<>>)
       \o (IF e.args[i].type = pe_long THEN <<37, 108, 100>> ELSE <<37, 115>>)
       \o SynthDirectives(e, delim, i + 1)

PrintFormatOf(e) ==
  IF e.print_with_format THEN translate_escapes(e.raw_components)
  ELSE SynthDirectives(e, IF e.print_with_delim
                          THEN EscapePercent(e.delimiter, 1) ELSE <<>>, 1)
       \o (IF e.print_with_newline THEN <<10>> ELSE <<>>)

\* bpf_unparser::visit_print_format
visit_print_format(cx, e) ==
  IF e.hist THEN throw(cx)
  ELSE IF Len(e.args) > BPF_MAXPRINTFARGS THEN throw(cx)
  ELSE
    Let([r \in {EvalArgs([cx |-> cx, actual |-> <<>>], e.args, 1)} |->
    Let([format \in {PrintFormatOf(e)} |->
       IF Stopped(r.cx) THEN r.cx
       ELSE IF \E i \in 1..Len(r.actual) : r.actual[i].ft \notin {pe_long, pe_string}
       THEN throw(r.cx)
       ELSE IF Len(format) + 1 > BPF_MAXFORMATLEN THEN throw(r.cx)
       ELSE emit_print_format(r.cx, format, r.actual, e.print_to_stream)])])

-----------------------------------------------------------------------------
(* translate_probe, translate_probe_v                                      *)

\* new_locals: one register per local of the probe.
new_locals(cx, nlocals) == [cx EXCEPT !.p.nregs = @ + nlocals]

\* translate_probe up to the visit of the body: a new unparser, the locals,
\* the entry block, the input argument saved in r6, the prologue.
translate_probe_enter(p, glob, maxerrors, nlocals) ==
  Then([c0 \in {new_locals(Cx(p, NewUnparserFor(glob, maxerrors)), nlocals)} |->
  Then([c1 \in {set_block(new_block(c0), NextBlock(c0))} |->
  Then([c2 \in {[c1 EXCEPT !.u.this_in_arg0 = lookup_reg(BPF_REG_6)]} |->
  Then([c3 \in {mk_mov(c2, c2.u.this_in_arg0, lookup_reg(BPF_REG_1))} |->
  add_prologue(c3)])])])])

\* translate_probe after the visit of the body.
translate_probe_leave(cx) ==
  IF in_block(cx)
  THEN Then([c1 \in {get_ret0_block(cx)} |-> emit_jmp(c1, c1.u.ret0_block)])
  ELSE cx

\* translate_probe_v before the loop over the probes: a new unparser and
\* the first this_block (the last block made is this_block).
translate_probe_v_enter(p, glob, maxerrors) ==
  LET c0 == Cx(p, NewUnparserFor(glob, maxerrors))
  IN IF p.blocks = <<>> THEN new_block(c0)
     ELSE emit_jmp(new_block(set_block(c0, Len(p.blocks))), Len(p.blocks) + 1)

\* The loop body of translate_probe_v up to the visit of probe i (from 0):
\* for the first probe the error status is made and cleared.
probe_v_body_enter(cx, this_block, i, nlocals) ==
  Then([c1 \in {new_locals(set_block(cx, this_block), nlocals)} |->
    IF i = 0
    THEN mk_mov([new_reg(c1) EXCEPT !.u.error_status = Reg(NextReg(c1))],
                Reg(NextReg(c1)), Imm(0))
    ELSE c1])

\* The loop body of translate_probe_v after the visit of probe i of n: the
\* next this_block is the ret0 block after the last probe, a new block
\* otherwise.  The new this_block is left in u.result as a block number.
probe_v_body_leave(cx, i, n) ==
  Then([c1 \in {IF i = n - 1 THEN get_ret0_block(cx) ELSE new_block(cx)} |->
    LET this_block == IF i = n - 1 THEN c1.u.ret0_block ELSE Len(c1.p.blocks)
    IN [(IF in_block(c1) THEN emit_jmp(c1, this_block) ELSE c1)
          EXCEPT !.u.result = Imm(this_block)]])

-----------------------------------------------------------------------------
(* translate_bpf_pass                                                      *)

\* The probe bodies of the sessions: nothing, a read of a global long, a read
\* of a statistics global, a for loop, a foreach loop with limit 2.
GlobalRead == [idx |-> 2, map_id |-> internal_map_idx, is_stat |-> FALSE,
               type |-> pe_long]
GlobalStat == [idx |-> 3, map_id |-> internal_map_idx, is_stat |-> TRUE,
               type |-> pe_long]
LoopStmt(limit) ==
  [limit |-> limit, keys |-> <<Reg(MAX_BPF_REG + 1), Reg(MAX_BPF_REG + 2)>>,
   index_types |-> <<pe_string, pe_long>>, sort_column |-> 0,
   sort_direction |-> 0, array_slice |-> FALSE, map_id |-> 2,
   is_stat |-> FALSE, value |-> NoVal, value_type |-> pe_unknown]

\* dp->body->visit(&u) up to where the visit returns or throws (a loop is
\* followed into its body only).
emit_body(cx, body) ==
  CASE body = "symbol" -> visit_symbol(cx, GlobalRead)
    [] body = "stat" -> visit_symbol(cx, GlobalStat)
    [] body = "for" -> visit_for_loop_enter(cx)
    [] body = "foreach" -> visit_foreach_loop_enter(cx, LoopStmt(Imm(2)))
    [] OTHER -> cx

\* translate_probe(prog, glob, dp)
translate_probe(p, glob, body) ==
  Then([c0 \in {translate_probe_enter(p, glob, 0, 1)} |->
  Then([c1 \in {emit_body(c0, body)} |->
  translate_probe_leave(c1)])])

\* for (size_t n = v.size(), i = 0; i < n; ++i) of translate_probe_v
RECURSIVE ProbeVLoop(_, _, _, _)
ProbeVLoop(cx, this_block, bodies, i) ==
  IF i >= Len(bodies) \/ Stopped(cx) THEN cx
  ELSE
  Then([c1 \in {probe_v_body_enter(cx, this_block, i, 1)} |->
  Then([c2 \in {emit_body(c1, bodies[i + 1])} |->
  Then([c3 \in {probe_v_body_leave(c2, i, Len(bodies))} |->
  ProbeVLoop(c3, c3.u.result.v, bodies, i + 1)])])])

\* translate_probe_v(prog, glob, v)
translate_probe_v(p, glob, bodies) ==
  Then([c0 \in {translate_probe_v_enter(p, glob, 0)} |->
  ProbeVLoop(c0, Len(c0.p.blocks), bodies, 0)])

\* output_probe: the section of the program and, when the program loads a
\* map, its relocation section.
output_probe(sections, p, name) ==
  sections \o <<name>>
  \o (IF \E b \in 1..Len(p.blocks) : \E k \in 1..Len(p.blocks[b].insns) :
           p.blocks[b].insns[k].op = "ld_map"
      THEN <<<<".rel.", name>>>> ELSE <<>>)

\* The pass before translate_globals: no section, ret = 0, nothing printed.
NewPass(n) ==
  [kind |-> "pass", i |-> 1, n |-> n, sections |-> <<>>, ret |-> 0,
   printed |-> 0, translated |-> {}, failed |-> 0, left_try |-> FALSE,
   unlinked |-> FALSE, glob |-> NewGlobals]

\* The faulty variant: the error is printed and the loop over the units
\* goes on with the next unit.
pass_catch_continue(d) ==
  [d EXCEPT !.ret = 1, !.printed = @ + 1, !.failed = d.i, !.i = @ + 1]

\* catch (const semantic_error &e) { s.print_error(e); ret = 1; }: the
\* handler is outside the loops over the units.
pass_catch(d) ==
  [d EXCEPT !.ret = 1, !.printed = @ + 1, !.failed = d.i, !.left_try = TRUE]

\* The sections written after the last unit.
TrailingSections ==
  <<"version", "license", "stapbpf_script_name", "stapbpf_interned_strings",
    "stapbpf_aggregates", "stapbpf_foreach_loop_info", ".strtab", ".symtab">>

-----------------------------------------------------------------------------
(* The machine that runs a generated program: registers, memory cells keyed *)
(* by address, the transport messages sent, the helper calls made.          *)

FP == 100000        \* the frame pointer handed to the program in BPF_REG_10
MapBase == 200000   \* map values live at MapBase + 1000 * map + 8 * key
SrcBase == 300000   \* where a dynamic source string lives
KeyBase == 400000   \* where the keys handed out by map_get_next_key live
CtxBase == 500000   \* the context handed to the program in BPF_REG_1

\* The value of an operand: an immediate, or the register's content.
Val(m, x) == IF x.t = "imm" THEN x.v ELSE IF x.t = "reg" THEN m.regs[x.v] ELSE 0

SetReg(m, d, v) == [m EXCEPT !.regs[d.v] = v]

Load(m, addr) == IF addr \in DOMAIN m.mem THEN m.mem[addr] ELSE 0

Store(m, addr, sz, v) ==
  [m EXCEPT !.mem = (addr :> v) @@ @,
            !.written = @ \cup {addr + k : k \in 0..(sz - 1)}]

\* One instruction that is neither a call, a jump nor the exit.
ExecInsn(m, i) ==
  CASE i.op = "mov" -> SetReg(m, i.d, Val(m, i.a))
    [] i.op = "ld_map" -> SetReg(m, i.d, Val(m, i.a))
    [] i.op = "ld" -> SetReg(m, i.d, Load(m, Val(m, i.a) + i.off))
    [] i.op = "st" -> Store(m, Val(m, i.d) + i.off, i.sz, Val(m, i.a))
    [] i.op = "add" -> SetReg(m, i.d, Val(m, i.a) + Val(m, i.b))
    [] i.op = "rsh" -> SetReg(m, i.d, Val(m, i.a) \div Pow2(Val(m, i.b)))
    [] i.op = "and" -> SetReg(m, i.d, BitAnd(Val(m, i.a), Val(m, i.b)))
    [] i.op = "or" -> SetReg(m, i.d, BitOr(Val(m, i.a), Val(m, i.b)))
    [] i.op = "neg" -> SetReg(m, i.d, 0 - Val(m, i.a))
    [] OTHER -> m

IsStraight(i) == i.op \notin {"call", "jcond", "exit"}

\* The straight-line run of instructions from index k of the sequence.
RECURSIVE ExecRun(_, _, _)
ExecRun(m, insns, k) ==
  IF k > Len(insns) \/ ~IsStraight(insns[k])
  THEN [m EXCEPT !.i = k]
  ELSE ExecRun(ExecInsn(m, insns[k]), insns, k + 1)

\* The comparison kinds of enum condition the translator uses.
CondHolds(c, x, y) ==
  CASE c = "EQ" -> x = y
    [] c = "NE" -> x # y
    [] c = "LT" -> x < y
    [] c = "LE" -> x <= y
    [] c = "GT" -> x > y
    [] c = "GE" -> x >= y
    [] c = "TEST" -> BitAnd(x, y) # 0
    [] OTHER -> FALSE

\* The machine at the entry of the program: at the first block, registers
\* cleared but the frame pointer, the given memory.
StartMachine(p, mem0, regs0) ==
  [state |-> "run", blk |-> 1, i |-> 1,
   regs |-> [r \in 0..(MAX_BPF_REG + p.nregs - 1) |->
               IF r \in DOMAIN regs0 THEN regs0[r]
               ELSE IF r = BPF_REG_10 THEN FP ELSE 0],
   mem |-> mem0, written |-> {}, sent |-> <<>>, calls |-> <<>>,
   entries |-> 0, iter |-> 0]

NoMachine ==
  [state |-> "off", blk |-> 0, i |-> 0, regs |-> <<>>, mem |-> <<>>,
   written |-> {}, sent |-> <<>>, calls |-> <<>>, entries |-> 0, iter |-> 0]

\* Where the value of key k of map m lives.
MapAddr(m, k) == MapBase + 1000 * m + 8 * k
\* Where the i-th key handed out by map_get_next_key lives.
KeyAddr(i) == KeyBase + 1000 * i

\* What a helper may return in r0, given the machine at the call.
\* map_lookup_elem: null, or the address of the value.  map_update_elem and
\* perf_event_output: 0, or an error.  map_get_next_key: 0 with a next key,
\* or -1 when the map is exhausted or the limit passed in r5 is 0.
HelperResults(m, id) ==
  CASE id = "map_lookup_elem" ->
         {0, MapAddr(m.regs[BPF_REG_1], Load(m, m.regs[BPF_REG_2]))}
    [] id = "map_update_elem" -> {0, -1}
    [] id = "perf_event_output" -> {0, -1}
    [] id = "map_get_next_key" ->
         IF m.regs[BPF_REG_5] = 0 \/ m.iter >= m.entries THEN {-1} ELSE {0}
    [] OTHER -> {0}

\* The effect of a helper call that returns r.
CallHelper(m, id, r) ==
  LET m1 == [m EXCEPT !.regs[BPF_REG_0] = r, !.calls = Append(@, id),
                      !.i = @ + 1]
  IN CASE id = "map_update_elem" /\ r = 0 ->
            [m1 EXCEPT !.mem = (MapAddr(m.regs[BPF_REG_1], Load(m, m.regs[BPF_REG_2]))
                                :> Load(m, m.regs[BPF_REG_3])) @@ @]
       [] id = "perf_event_output" ->
            [m1 EXCEPT !.sent = Append(@,
               [tag |-> Load(m, m.regs[BPF_REG_4]),
                arg |-> IF m.regs[BPF_REG_5] > SIZEOF_BPF_TRANSPORT_VAL
                        THEN Load(m, m.regs[BPF_REG_4] + SIZEOF_BPF_TRANSPORT_VAL)
                        ELSE 0])]
       [] id = "map_get_next_key" /\ r = 0 ->
            [m1 EXCEPT !.mem = (m.regs[BPF_REG_3] :> KeyAddr(m.iter + 1)) @@ @,
                       !.iter = @ + 1]
       [] OTHER -> m1

\* Before any translate_* function runs.
NoDriver == [kind |-> "none", i |-> 0, n |-> 0, this_block |-> NoBlock,
             nstmts |-> 0, max |-> 0]
NoHistory ==
  [bodies |-> {}, tries |-> {}, jumps |-> {}, prints |-> <<>>, loops |-> <<>>,
   thrown_by |-> "", before |-> NewProgram(target_user_bpfinterp)]

-----------------------------------------------------------------------------
(* Running the generated program                                           *)

CurInsns == prog.blocks[mach.blk].insns
AtInsn == mach.i <= Len(CurInsns)

\* A run of straight-line instructions of the current block.
ExecStraight ==
  /\ pc = "run" /\ mach.state = "run"
  /\ AtInsn /\ IsStraight(CurInsns[mach.i])
  /\ mach' = ExecRun(mach, CurInsns, mach.i)
  /\ UNCHANGED <<prog, u, pc, requested, inp, drv, ctl, hist>>

\* The conditional jump that ends a block: to the taken edge when the
\* condition holds, else to the fallthru edge.
ExecJcond ==
  /\ pc = "run" /\ mach.state = "run"
  /\ AtInsn /\ CurInsns[mach.i].op = "jcond"
  /\ LET i == CurInsns[mach.i]
         b == prog.blocks[mach.blk]
         to == IF CondHolds(i.aux, Val(mach, i.a), Val(mach, i.b))
               THEN b.taken ELSE b.fallthru
     IN mach' = IF to # NoBlock THEN [mach EXCEPT !.blk = to, !.i = 1]
                ELSE [mach EXCEPT !.state = "end"]
  /\ UNCHANGED <<prog, u, pc, requested, inp, drv, ctl, hist>>

\* The end of a block without a jump: on to the fallthru block; a block
\* with no successor ends the generated fragment.
ExecFallthru ==
  /\ pc = "run" /\ mach.state = "run"
  /\ ~AtInsn
  /\ LET b == prog.blocks[mach.blk]
     IN mach' = IF b.fallthru # NoBlock
                THEN [mach EXCEPT !.blk = b.fallthru, !.i = 1]
                ELSE [mach EXCEPT !.state = "end"]
  /\ UNCHANGED <<prog, u, pc, requested, inp, drv, ctl, hist>>

\* A helper call: the helper returns one of the results it may return.
ExecCall ==
  /\ pc = "run" /\ mach.state = "run"
  /\ AtInsn /\ CurInsns[mach.i].op = "call"
  /\ \E r \in HelperResults(mach, CurInsns[mach.i].aux) :
       mach' = CallHelper(mach, CurInsns[mach.i].aux, r)
  /\ UNCHANGED <<prog, u, pc, requested, inp, drv, ctl, hist>>

\* The exit instruction ends the program; r0 is what it returns.
ExecExit ==
  /\ pc = "run" /\ mach.state = "run"
  /\ AtInsn /\ CurInsns[mach.i].op = "exit"
  /\ mach' = [mach EXCEPT !.state = "exit"]
  /\ UNCHANGED <<prog, u, pc, requested, inp, drv, ctl, hist>>

-----------------------------------------------------------------------------
(* Specification SpecStr: one string copy is emitted, then run             *)

StrOfs == {-64, -72}

\* Lengths of the dynamic source: the NUL is at byte len; from
\* BPF_MAXSTRINGLEN on there is no NUL within the copied width.
SrcLens == 0..(BPF_MAXSTRINGLEN + 1)
\* What follows the NUL in the source buffer: zeroes, or left-over bytes.
SrcTails == {0, 127}
\* Legal literal lengths: emit_literal_string rejects str.size() + 1 > 64.
LitLens == 0..(BPF_MAXSTRINGLEN - 1)

\* Byte k (from 0) of the string content: never zero, below 128.
ContentByte(k) == 33 + (k % 90)
SrcByte(in, k) ==
  IF k < in.len THEN ContentByte(k) ELSE IF k = in.len THEN 0 ELSE in.tail
LiteralBytes(n) == [k \in 1..n |-> ContentByte(k - 1)]

\* The source buffer as 4-byte little-endian cells from SrcBase on.
SrcWord(in, i) ==
  SrcByte(in, 4 * i) + 256 * SrcByte(in, 4 * i + 1)
  + 65536 * SrcByte(in, 4 * i + 2) + 16777216 * SrcByte(in, 4 * i + 3)
SrcMem(in) ==
  [a \in {SrcBase + 4 * i : i \in 0..(BPF_MAXSTRINGLEN \div 4)} |->
     SrcWord(in, (a - SrcBase) \div 4)]

StrInputs ==
  [kind : {"literal"}, len : LitLens, tail : {0}, zero_pad : BOOLEAN, ofs : StrOfs]
  \cup [kind : {"dynamic"}, len : SrcLens, tail : SrcTails, zero_pad : BOOLEAN,
        ofs : StrOfs]
  \cup [kind : {"null"}, len : {0}, tail : {0}, zero_pad : BOOLEAN, ofs : StrOfs]

SrcReg == Reg(MAX_BPF_REG)

InitStr ==
  /\ inp \in StrInputs
  /\ prog = [NewProgram(target_user_bpfinterp) EXCEPT
               !.blocks = <<EmptyBlock>>, !.nregs = 1]
  /\ u = [NewUnparser EXCEPT !.this_ins = 1]
  /\ pc = "lower"
  /\ requested = <<>>
  /\ mach = NoMachine
  /\ drv = NoDriver /\ ctl = <<>> /\ hist = NoHistory

\* emit_string_copy(frame, ofs, src, zero_pad) into the current block.
EmitStringCopy ==
  /\ pc = "lower"
  /\ LET src == IF inp.kind = "literal" THEN Str(LiteralBytes(inp.len)) ELSE SrcReg
         r == emit_string_copy(Cx(prog, u), lookup_reg(BPF_REG_10), inp.ofs,
                               src, inp.zero_pad)
     IN /\ prog' = r.p
        /\ u' = r.u
  /\ pc' = "lowered"
  /\ UNCHANGED <<requested, mach, inp, drv, ctl, hist>>

\* The generated copy is entered with the source pointer in its register.
RunStringCopy ==
  /\ pc = "lowered"
  /\ mach' = StartMachine(prog,
                          IF inp.kind = "dynamic" THEN SrcMem(inp) ELSE <<>>,
                          (SrcReg.v :> (IF inp.kind = "dynamic" THEN SrcBase ELSE 0)))
  /\ pc' = "run"
  /\ UNCHANGED <<prog, u, requested, inp, drv, ctl, hist>>

NextStr ==
  \/ EmitStringCopy
  \/ RunStringCopy
  \/ ExecStraight
  \/ ExecJcond
  \/ ExecFallthru

SpecStr == InitStr /\ [][NextStr]_vars

\* The destination as bytes: byte k of [dest, dest + 64 + ...) from the
\* 4-byte cells the copy stored.
DestAddr(k) == FP + inp.ofs + k
DestByte(k) ==
  (Load(mach, DestAddr(4 * (k \div 4))) \div Pow2(8 * (k % 4))) % 256
StrDone == pc = "run" /\ mach.state = "end"

\* The place of the first zero byte of the source within the copied width
\* (BPF_MAXSTRINGLEN when there is none).
TermPos ==
  IF inp.kind = "null" THEN 0
  ELSE IF inp.len < BPF_MAXSTRINGLEN THEN inp.len ELSE BPF_MAXSTRINGLEN

\* The byte the source holds at place k: the literal's bytes and zero from
\* its end on, the buffer's bytes, or nothing but zero for a null source.
SourceByte(k) ==
  IF inp.kind = "literal" THEN LiteralByte(LiteralBytes(inp.len), k)
  ELSE IF inp.kind = "dynamic" THEN SrcByte(inp, k)
  ELSE 0

DestRange(n) == {DestAddr(k) : k \in 0..(n - 1)}

\* C6: a copy with zero-padding writes exactly the 64 destination bytes
\* [ofs, ofs + 64) on every path, and every destination byte after the
\* string's terminating byte is zero.
C6_ZeroPadCopy ==
  (StrDone /\ inp.zero_pad) =>
    /\ mach.written = DestRange(BPF_MAXSTRINGLEN)
    /\ \A k \in (TermPos + 1)..(BPF_MAXSTRINGLEN - 1) : DestByte(k) = 0

\* C7 as stated: a copy without zero-padding writes only the destination
\* bytes up to and including the first terminating zero byte.
C7_OnlyThroughTerminator ==
  (StrDone /\ ~inp.zero_pad) =>
    mach.written \subseteq
      DestRange(IF TermPos < BPF_MAXSTRINGLEN THEN TermPos + 1
                ELSE BPF_MAXSTRINGLEN)

\* The words a copy without zero-padding stores: up to and including the
\* word that holds the first terminating zero byte, 16 words at most.
WordsCopied ==
  IF TermPos \div 4 < BPF_MAXSTRINGLEN \div 4 THEN TermPos \div 4 + 1
  ELSE BPF_MAXSTRINGLEN \div 4

\* C7 (amended): a copy without zero-padding writes whole 4-byte words: the
\* destination words up to and including the word that holds the first
\* terminating zero byte (all 16 when there is none in 64 bytes), each byte
\* the source's byte at that place (zero after a literal's end and for a
\* null source); no byte beyond that word is written.
C7_WholeWordsThroughTerminator ==
  (StrDone /\ ~inp.zero_pad) =>
    /\ mach.written = DestRange(4 * WordsCopied)
    /\ \A k \in 0..(4 * WordsCopied - 1) : DestByte(k) = SourceByte(k)

\* A dynamic source "abcde" followed by left-over bytes: the copy has run
\* and byte 6, beyond the terminator, holds the left-over byte.
C7_Witness ==
  /\ StrDone /\ ~inp.zero_pad
  /\ inp.kind = "dynamic" /\ inp.len = 5 /\ inp.tail = 127
  /\ DestAddr(6) \in mach.written
  /\ DestByte(6) = 127

-----------------------------------------------------------------------------
(* Specification SpecProbe: one probe program (translate_probe) or one     *)
(* probe group program (translate_probe_v) is translated statement by      *)
(* statement, then run                                                     *)

MaxStmts == 2
MaxProbes == 2
MAXERRORS_values == {0, 1}

\* What the scripts of this specification are made of: the message of
\* error("X"), a global long variable (the first after the internal
\* globals), the local that is the catch variable.
ErrMsg == Str(<<88>>)
GlobalLong == [idx |-> 2, map_id |-> internal_map_idx, is_stat |-> FALSE,
               type |-> pe_long]
CatchVar == Reg(MAX_BPF_REG)

InitProbe ==
  /\ prog = NewProgram(target_user_bpfinterp)
  /\ u = NoUnparser
  /\ pc = "idle"
  /\ requested = <<>>
  /\ mach = NoMachine
  /\ inp = [kind |-> "none"]
  /\ drv = NoDriver /\ ctl = <<>> /\ hist = NoHistory

\* The translator after a step: stopped by a crash or a thrown error, or on
\* to the next statement.
After(cx, next) ==
  /\ prog' = cx.p
  /\ u' = cx.u
  /\ pc' = IF cx.u.crash THEN "crash" ELSE IF cx.u.error THEN "error" ELSE next

\* translate_probe(prog, glob, dp) is entered for a probe of either target.
TranslateProbe ==
  /\ pc = "idle"
  /\ \E t \in Targets, me \in MAXERRORS_values :
       LET cx == translate_probe_enter(NewProgram(t), NewGlobals, me, 1)
       IN /\ After(cx, "body")
          /\ hist' = [hist EXCEPT !.bodies = {cx.u.this_ins}]
  /\ drv' = [NoDriver EXCEPT !.kind = "probe", !.n = 1, !.max = MaxStmts]
  /\ UNCHANGED <<requested, mach, inp, ctl>>

\* translate_probe_v(prog, glob, v) is entered for a group of n probes.
TranslateProbeV ==
  /\ pc = "idle"
  /\ \E n \in 1..MaxProbes, me \in MAXERRORS_values :
       LET c0 == translate_probe_v_enter(NewProgram(target_user_bpfinterp),
                                         NewGlobals, me)
           this_block == Len(c0.p.blocks)
           cx == probe_v_body_enter(c0, this_block, 0, 1)
       IN /\ After(cx, "body")
          /\ hist' = [hist EXCEPT !.bodies = {cx.u.this_ins}]
          /\ drv' = [NoDriver EXCEPT !.kind = "probe_v", !.n = n,
                                     !.this_block = this_block,
                                     !.max = MaxStmts]
  /\ UNCHANGED <<requested, mach, inp, ctl>>

\* translate_probe_v goes from one probe of the group to the next.
NextProbeV ==
  /\ pc = "body" /\ ctl = <<>>
  /\ drv.kind = "probe_v" /\ drv.i < drv.n - 1
  /\ LET c1 == probe_v_body_leave(Cx(prog, u), drv.i, drv.n)
         this_block == c1.u.result.v
         cx == IF Stopped(c1) THEN c1
               ELSE probe_v_body_enter(c1, this_block, drv.i + 1, 1)
     IN /\ After(cx, "body")
        /\ hist' = [hist EXCEPT !.bodies = @ \cup {this_block}]
        /\ drv' = [drv EXCEPT !.i = @ + 1, !.this_block = this_block]
  /\ UNCHANGED <<requested, mach, inp, ctl>>

\* The body (of the last probe) has been visited: translate_probe or
\* translate_probe_v returns.
FinishTranslate ==
  /\ pc = "body" /\ ctl = <<>>
  /\ drv.i = drv.n - 1
  /\ After(IF drv.kind = "probe" THEN translate_probe_leave(Cx(prog, u))
           ELSE probe_v_body_leave(Cx(prog, u), drv.i, drv.n),
           "translated")
  /\ UNCHANGED <<requested, mach, inp, drv, ctl, hist>>

CanVisit == pc = "body" /\ drv.nstmts < drv.max
Visited == drv' = [drv EXCEPT !.nstmts = @ + 1]

\* try { ... }: visit_try_block is entered.
VisitTryBlock ==
  /\ CanVisit
  /\ After(visit_try_block_enter(Cx(prog, u)), "body")
  /\ ctl' = Append(ctl, [kind |-> "try", catch_block |-> Len(prog.blocks) + 1,
                         join_block |-> Len(prog.blocks) + 2])
  /\ Visited
  /\ UNCHANGED <<requested, mach, inp, hist>>

\* The protected body has been visited; the catch body is next.
EndTryBody ==
  /\ pc = "body" /\ ctl # <<>> /\ Back(ctl).kind = "try"
  /\ \E with_var \in BOOLEAN, garbage \in BOOLEAN :
       /\ (garbage => with_var /\ u.catch_msg = <<>>)
       /\ After(visit_try_block_catch(Cx(prog, u), Back(ctl).catch_block,
                                      Back(ctl).join_block,
                                      IF with_var THEN CatchVar ELSE NoVal,
                                      garbage),
                "body")
  /\ ctl' = [ctl EXCEPT ![Len(ctl)].kind = "catch"]
  /\ hist' = [hist EXCEPT !.tries = @ \cup
                {[catch_block |-> Back(ctl).catch_block,
                  join_block |-> Back(ctl).join_block,
                  body_end |-> u.this_ins]}]
  /\ UNCHANGED <<requested, mach, inp, drv>>

\* The catch body has been visited: visit_try_block returns.
EndCatchBody ==
  /\ pc = "body" /\ ctl # <<>> /\ Back(ctl).kind = "catch"
  /\ After(visit_try_block_leave(Cx(prog, u), Back(ctl).join_block), "body")
  /\ ctl' = PopBack(ctl)
  /\ UNCHANGED <<requested, mach, inp, drv, hist>>

\* The catch blocks whose protected body is being visited, innermost last.
OpenTries == SelectSeq(ctl, LAMBDA f : f.kind = "try")

\* Embedded code: jump_to_catch, $msg
EmbeddedJumpToCatch ==
  /\ CanVisit
  /\ After(jump_to_catch(Cx(prog, u), ErrMsg), "body")
  /\ hist' = IF OpenTries # <<>> /\ u.this_ins # NoBlock
             THEN [hist EXCEPT !.jumps = @ \cup
                     {<<u.this_ins, Back(OpenTries).catch_block>>}]
             ELSE hist
  /\ Visited
  /\ UNCHANGED <<requested, mach, inp, ctl>>

\* Embedded code: register_error, $msg
EmbeddedRegisterError ==
  /\ CanVisit
  /\ After(register_error(Cx(prog, u), ErrMsg), "body")
  /\ Visited
  /\ UNCHANGED <<requested, mach, inp, ctl, hist>>

\* Embedded code: terminate
EmbeddedTerminate ==
  /\ CanVisit
  /\ After(terminate(Cx(prog, u)), "body")
  /\ Visited
  /\ UNCHANGED <<requested, mach, inp, ctl, hist>>

\* next
VisitNextStatement ==
  /\ CanVisit
  /\ \E null_edge \in BOOLEAN :
       /\ (null_edge => u.exit_block = NoBlock /\ u.this_ins # NoBlock)
       /\ After(visit_next_statement(Cx(prog, u), null_edge), "body")
  /\ Visited
  /\ UNCHANGED <<requested, mach, inp, ctl, hist>>

\* An expression statement that reads a global.
VisitSymbol ==
  /\ CanVisit
  /\ After(visit_symbol(Cx(prog, u), GlobalLong), "body")
  /\ Visited
  /\ UNCHANGED <<requested, mach, inp, ctl, hist>>

\* The foreach of the scripts: over an array with a string and a long
\* index, the keys in the locals 1 and 2, with the given limit.
ForeachStmt(limit) ==
  [limit |-> limit, keys |-> <<Reg(MAX_BPF_REG + 1), Reg(MAX_BPF_REG + 2)>>,
   index_types |-> <<pe_string, pe_long>>, sort_column |-> 0,
   sort_direction |-> 0, array_slice |-> FALSE, map_id |-> 2,
   is_stat |-> FALSE, value |-> NoVal, value_type |-> pe_unknown]

\* for (...) or foreach (...) in a probe for the kernel target.
VisitLoopKernel ==
  /\ CanVisit
  /\ prog.target = target_kernel_bpf
  /\ \E loop \in {"for", "foreach"} :
       /\ After(IF loop = "for" THEN visit_for_loop_enter(Cx(prog, u))
                ELSE visit_foreach_loop_enter(Cx(prog, u), ForeachStmt(Imm(2))),
                "body")
       /\ hist' = [hist EXCEPT !.thrown_by = loop, !.before = prog]
  /\ Visited
  /\ UNCHANGED <<requested, mach, inp, ctl>>

\* The exit flag and the error count the program may find in the map of
\* internal globals, and what r0 may hold at entry.
ExitFlags == {0, 1}
ErrorCounts == {0, 2}
EntryR0 == {77}

\* The translated program is loaded and entered.
RunProgram ==
  /\ pc = "translated"
  /\ \E ef \in ExitFlags, ec \in ErrorCounts, r0 \in EntryR0 :
       mach' = StartMachine(prog,
                 (MapAddr(internal_map_idx, EXIT) :> ef)
                 @@ (MapAddr(internal_map_idx, ERRORS) :> ec)
                 @@ (MapAddr(internal_map_idx, GlobalLong.idx) :> 5),
                 (BPF_REG_0 :> r0) @@ (BPF_REG_1 :> CtxBase))
  /\ pc' = "run"
  /\ UNCHANGED <<prog, u, requested, inp, drv, ctl, hist>>

NextProbe ==
  \/ TranslateProbe
  \/ TranslateProbeV
  \/ NextProbeV
  \/ FinishTranslate
  \/ EmbeddedJumpToCatch
  \/ EmbeddedRegisterError
  \/ EmbeddedTerminate
  \/ VisitNextStatement
  \/ VisitSymbol
  \/ VisitLoopKernel
  \/ RunProgram
  \/ ExecStraight
  \/ ExecJcond
  \/ ExecFallthru
  \/ ExecCall
  \/ ExecExit

SpecProbe == InitProbe /\ [][NextProbe]_vars

\* The control flow graph of the program: the blocks an edge of b leads to,
\* and the blocks that can be reached from the entry (the first block)
\* without going through a block of avoid.
Succs(p, b) == {p.blocks[b].taken, p.blocks[b].fallthru} \ {NoBlock}
RECURSIVE ReachFrom(_, _, _)
ReachFrom(p, seen, avoid) ==
  LET new == (UNION {Succs(p, b) : b \in seen \ avoid}) \ seen
  IN IF new = {} THEN seen ELSE ReachFrom(p, seen \cup new, avoid)
ReachableAvoiding(p, avoid) ==
  IF p.blocks = <<>> THEN {} ELSE ReachFrom(p, {1}, avoid)

EndsIn(p, b, cond, operand, target) ==
  /\ p.blocks[b].insns # <<>>
  /\ Back(p.blocks[b].insns).op = "jcond"
  /\ Back(p.blocks[b].insns).aux = cond
  /\ Back(p.blocks[b].insns).b = operand
  /\ p.blocks[b].taken = target

\* Block b stores the key of an internal global, calls map_lookup_elem and
\* leaves for the exit block when the result is null.
LooksUp(p, b, key, exit) ==
  /\ EndsIn(p, b, "EQ", Imm(0), exit)
  /\ \E i, j \in 1..Len(p.blocks[b].insns) :
       /\ i < j
       /\ p.blocks[b].insns[i].op = "st" /\ p.blocks[b].insns[i].a = Imm(key)
       /\ p.blocks[b].insns[j].op = "call"
       /\ p.blocks[b].insns[j].aux = "map_lookup_elem"

\* The blocks that check the exit flag, and those that check the error
\* count against MAXERRORS: entered from the lookup of the global, they
\* load it and leave for the exit block when it is 1, or above the limit.
ExitFlagChecks ==
  {b \in 1..Len(prog.blocks) :
     /\ u.exit_block # NoBlock
     /\ EndsIn(prog, b, "EQ", Imm(1), u.exit_block)
     /\ \E b0 \in 1..Len(prog.blocks) :
          LooksUp(prog, b0, EXIT, u.exit_block) /\ prog.blocks[b0].fallthru = b}
ErrorCountChecks ==
  {b \in 1..Len(prog.blocks) :
     /\ u.exit_block # NoBlock
     /\ EndsIn(prog, b, "GT", Imm(u.MAXERRORS), u.exit_block)
     /\ \E b0 \in 1..Len(prog.blocks) :
          LooksUp(prog, b0, ERRORS, u.exit_block) /\ prog.blocks[b0].fallthru = b}

\* The body that starts in block b cannot be reached from the entry of the
\* program without going through both checks.
Wrapped(b) ==
  /\ b \notin ReachableAvoiding(prog, ExitFlagChecks)
  /\ b \notin ReachableAvoiding(prog, ErrorCountChecks)

Translating == pc \in {"body", "translated", "run"}

ExitInsns ==
  {<<b, k>> \in (1..Len(prog.blocks)) \X (1..20) :
     k <= Len(prog.blocks[b].insns) /\ prog.blocks[b].insns[k].op = "exit"}

\* C4 as claimed: whenever the program runs into the exit instruction the
\* return register r0 is zero, and the program has one exit instruction.
C4_R0ZeroAtExit ==
  (pc = "run" /\ mach.state = "exit") =>
    mach.regs[BPF_REG_0] = 0 /\ Cardinality(ExitInsns) = 1

-----------------------------------------------------------------------------
(* Specification SpecTry: the body of one probe, made of try blocks, jumps *)
(* to the catch block, registered errors and next statements, is           *)
(* translated                                                              *)

MaxTryStmts == 4

\* translate_probe(prog, glob, dp) is entered for a probe of the user target.
TranslateTry ==
  /\ pc = "idle"
  /\ LET cx == translate_probe_enter(NewProgram(target_user_bpfinterp),
                                     NewGlobals, 0, 1)
     IN /\ After(cx, "body")
        /\ hist' = [hist EXCEPT !.bodies = {cx.u.this_ins}]
  /\ drv' = [NoDriver EXCEPT !.kind = "probe", !.n = 1, !.max = MaxTryStmts]
  /\ UNCHANGED <<requested, mach, inp, ctl>>

NextTry ==
  \/ TranslateTry
  \/ VisitTryBlock
  \/ EndTryBody
  \/ EndCatchBody
  \/ EmbeddedJumpToCatch
  \/ EmbeddedRegisterError
  \/ VisitNextStatement
  \/ FinishTranslate

SpecTry == InitProbe /\ [][NextTry]_vars

\* The try constructs visited so far: those whose catch body has been
\* reached (hist.tries) and those whose protected body is being visited.
CatchBlocks ==
  {t.catch_block : t \in hist.tries} \cup {ctl[k].catch_block : k \in 1..Len(ctl)}

\* C3: every edge that enters the catch block of a try construct was made
\* by a jump_to_catch while that catch block was the innermost installed
\* one, and the block in which the protected body ends goes to the join
\* block, by its only edge.
C3_CatchEdges ==
  /\ \A c \in CatchBlocks : \A b \in 1..Len(prog.blocks) :
       c \in Succs(prog, b) => <<b, c>> \in hist.jumps
  /\ \A t \in hist.tries :
       t.body_end # NoBlock =>
         /\ Succs(prog, t.body_end) = {t.join_block}
         /\ t.join_block # t.catch_block

C3_Witness ==
  /\ pc = "translated"
  /\ \E t \in hist.tries, j \in hist.jumps :
       /\ j[2] = t.catch_block
       /\ prog.blocks[j[1]].fallthru = t.catch_block
       /\ t.body_end # NoBlock
       /\ \E t2 \in hist.tries : t2.catch_block > t.catch_block

-----------------------------------------------------------------------------
(* Specification SpecPass: translate_bpf_pass over a session of probe      *)
(* groups and probes                                                       *)

MaxUnits == 3

GroupKinds == {"begin", "end"}
KindRank(k) == CASE k = "begin" -> 1 [] k = "end" -> 2 [] k = "kprobe" -> 3
                 [] OTHER -> 4
GroupBodies == {<<"empty">>, <<"stat">>, <<"symbol">>, <<"empty", "stat">>,
                <<"stat", "empty">>, <<"empty", "empty">>}
Units ==
  [kind : GroupKinds, bodies : GroupBodies]
  \cup [kind : {"kprobe"},
        bodies : {<<"empty">>, <<"symbol">>, <<"stat">>, <<"for">>, <<"foreach">>}]
  \cup [kind : {"procfs"}, bodies : {<<"empty">>, <<"symbol">>, <<"stat">>}]

\* The units in the order translate_bpf_pass takes them: the begin group,
\* the end group, the kprobes, the procfs probes.
InPassOrder(us) ==
  \A k \in 1..(Len(us) - 1) :
    \/ KindRank(us[k].kind) < KindRank(us[k + 1].kind)
    \/ us[k].kind = us[k + 1].kind /\ us[k].kind \notin GroupKinds
Sessions ==
  {us \in UNION {[1..n -> Units] : n \in 1..MaxUnits} : InPassOrder(us)}

InitPass ==
  /\ \E us \in Sessions, elf_ok \in BOOLEAN :
       /\ inp = [kind |-> "session", units |-> us, elf_ok |-> elf_ok]
       /\ drv = NewPass(Len(us))
  /\ prog = NewProgram(target_user_bpfinterp)
  /\ u = NoUnparser
  /\ pc = "start"
  /\ requested = <<>>
  /\ mach = NoMachine
  /\ ctl = <<>> /\ hist = NoHistory

\* translate_globals(glob, s); output_maps(eo, glob);
StartPass ==
  /\ pc = "start"
  /\ drv' = [drv EXCEPT !.sections = <<"maps">>]
  /\ pc' = "unit"
  /\ UNCHANGED <<prog, u, requested, mach, inp, ctl, hist>>

UnitName == <<inp.units[drv.i].kind, drv.i>>

\* One unit inside the try block: program p(target); translate...;
\* p.generate(); output_probe(eo, p, name, flags).  A semantic_error leaves
\* the unit where it is thrown.
TranslateUnit(cx, before) ==
  /\ prog' = cx.p
  /\ u' = cx.u
  /\ IF cx.u.crash
     THEN pc' = "crash" /\ UNCHANGED <<drv, hist>>
     ELSE IF cx.u.error
     THEN /\ pc' = "thrown"
          /\ drv' = [drv EXCEPT !.glob = cx.u.glob]
          /\ hist' = [hist EXCEPT !.thrown_by = Back(inp.units[drv.i].bodies),
                                  !.before = before]
     ELSE /\ pc' = "unit"
          /\ drv' = [drv EXCEPT !.glob = cx.u.glob, !.i = @ + 1,
                                !.translated = @ \cup {drv.i},
                                !.sections = output_probe(@, cx.p, UnitName)]
          /\ UNCHANGED hist
  /\ UNCHANGED <<requested, mach, inp, ctl>>

\* A begin or end group: translate_probe_v on the user target.
TranslateGroup ==
  /\ pc = "unit" /\ drv.i <= drv.n
  /\ inp.units[drv.i].kind \in GroupKinds
  /\ TranslateUnit(translate_probe_v(NewProgram(target_user_bpfinterp),
                                     drv.glob, inp.units[drv.i].bodies),
                   NewProgram(target_user_bpfinterp))

\* A kprobe: translate_probe on the kernel target.
TranslateKernelProbe ==
  /\ pc = "unit" /\ drv.i <= drv.n
  /\ inp.units[drv.i].kind = "kprobe"
  /\ TranslateUnit(translate_probe(NewProgram(target_kernel_bpf), drv.glob,
                                   inp.units[drv.i].bodies[1]),
                   translate_probe_enter(NewProgram(target_kernel_bpf),
                                         drv.glob, 0, 1).p)

\* A procfs probe: translate_probe on the user target.
TranslateUserProbe ==
  /\ pc = "unit" /\ drv.i <= drv.n
  /\ inp.units[drv.i].kind = "procfs"
  /\ TranslateUnit(translate_probe(NewProgram(target_user_bpfinterp), drv.glob,
                                   inp.units[drv.i].bodies[1]),
                   translate_probe_enter(NewProgram(target_user_bpfinterp),
                                         drv.glob, 0, 1).p)

\* After the last unit: the trailing sections and elf_update.
WriteFile ==
  /\ pc = "unit" /\ drv.i > drv.n /\ ~drv.left_try
  /\ drv' = [drv EXCEPT !.sections = @ \o TrailingSections,
                        !.ret = IF inp.elf_ok THEN @ ELSE 1,
                        !.left_try = TRUE]
  /\ pc' = "close"
  /\ UNCHANGED <<prog, u, requested, mach, inp, ctl, hist>>

\* catch (const semantic_error &e)
CatchSemanticError ==
  /\ pc = "thrown"
  /\ drv' = pass_catch(drv)
  /\ pc' = IF drv'.left_try THEN "close" ELSE "unit"
  /\ UNCHANGED <<prog, u, requested, mach, inp, ctl, hist>>

\* close(fd); if (ret == 1) unlink(s.translated_source); return ret;
ClosePass ==
  /\ pc = "close"
  /\ drv' = [drv EXCEPT !.unlinked = (drv.ret = 1)]
  /\ pc' = "done"
  /\ UNCHANGED <<prog, u, requested, mach, inp, ctl, hist>>

NextPass ==
  \/ StartPass
  \/ TranslateGroup
  \/ TranslateKernelProbe
  \/ TranslateUserProbe
  \/ WriteFile
  \/ CatchSemanticError
  \/ ClosePass

SpecPass == InitPass /\ [][NextPass]_vars

\* What the bodies of the sessions do to a translation: a read of a
\* statistics global is refused on both targets, a loop on the kernel target.
UnitFails(un) ==
  \E k \in 1..Len(un.bodies) :
    \/ un.bodies[k] = "stat"
    \/ un.kind = "kprobe" /\ un.bodies[k] \in {"for", "foreach"}
Failing == {k \in 1..Len(inp.units) : UnitFails(inp.units[k])}
FirstFailing == CHOOSE k \in Failing : \A j \in Failing : k <= j

LoopUnit(k) ==
  /\ k \in 1..Len(inp.units)
  /\ inp.units[k].kind = "kprobe"
  /\ inp.units[k].bodies[1] \in {"for", "foreach"}
SectionOf(k) ==
  {j \in 1..Len(drv.sections) :
     drv.sections[j] \in {<<"kprobe", k>>, <<".rel.", <<"kprobe", k>>>>}}

\* C9 as claimed: when the error of a loop in a kernel probe is raised, the
\* program of the probe holds no block, and no section is written for it.
C9_NothingEmitted ==
  (pc = "thrown" /\ LoopUnit(drv.i)) =>
    prog.blocks = <<>> /\ SectionOf(drv.i) = {}

\* C9 as the code has it: a kernel probe with a for or foreach loop is not
\* translated and no section is ever written for it; when the error is
\* raised the program of the probe is what it was when the visit of the loop
\* began, the entry block with the prologue and the exit blocks, and the
\* loop is not entered in foreach_loop_info.
C9_LoopEmitsNothing ==
  /\ \A k \in 1..Len(inp.units) :
       LoopUnit(k) => k \notin drv.translated /\ SectionOf(k) = {}
  /\ (pc = "thrown" /\ LoopUnit(drv.i)) =>
       /\ prog = hist.before
       /\ prog.blocks # <<>>
       /\ prog.blocks[1].insns # <<>>
       /\ drv.glob.foreach_loop_info = <<>>

C9_Witness ==
  /\ pc = "thrown" /\ LoopUnit(drv.i)
  /\ hist.thrown_by = "for"
  /\ drv.i = 2 /\ drv.translated = {1}

-----------------------------------------------------------------------------
(* Specification SpecForeach: a probe for the interpreter whose body is a   *)
(* foreach over an array with a string and a long index is translated and  *)
(* run against a map with some number of entries                           *)

MaxLimit == 2
MaxEntries == 4
MaxLoopStmts == 2

\* The limits of the foreach: none, or the literal 0..MaxLimit.
Limits == {NoVal} \cup {Imm(l) : l \in 0..MaxLimit}

\* translate_probe is entered and visit_foreach_loop runs up to the body.
TranslateForeach ==
  /\ pc = "idle"
  /\ \E limit \in Limits :
       LET c0 == translate_probe_enter(NewProgram(target_user_bpfinterp),
                                       NewGlobals, 0, 3)
           f == ForeachLocals(c0, ForeachStmt(limit))
       IN /\ After(visit_foreach_loop_enter(c0, ForeachStmt(limit)), "body")
          /\ ctl' = <<[kind |-> "foreach", s |-> ForeachStmt(limit), f |-> f]>>
          /\ hist' = [hist EXCEPT !.bodies = {c0.u.this_ins},
                                  !.loops = <<[limit |-> limit,
                                               body_block |-> f.body_block,
                                               join_block |-> f.join_block]>>]
  /\ drv' = [NoDriver EXCEPT !.kind = "probe", !.n = 1, !.max = MaxLoopStmts]
  /\ UNCHANGED <<requested, mach, inp>>

\* break
VisitBreak ==
  /\ CanVisit
  /\ After(visit_break_statement(Cx(prog, u)), "body")
  /\ Visited
  /\ UNCHANGED <<requested, mach, inp, ctl, hist>>

\* continue
VisitContinue ==
  /\ CanVisit
  /\ After(visit_continue_statement(Cx(prog, u)), "body")
  /\ Visited
  /\ UNCHANGED <<requested, mach, inp, ctl, hist>>

\* The loop body has been visited: visit_foreach_loop goes on to its end.
EndForeachBody ==
  /\ pc = "body" /\ ctl # <<>> /\ Back(ctl).kind = "foreach"
  /\ After(visit_foreach_loop_leave(Cx(prog, u), Back(ctl).s, Back(ctl).f),
           "body")
  /\ ctl' = PopBack(ctl)
  /\ UNCHANGED <<requested, mach, inp, drv, hist>>

\* The translated program is entered; the map of the array holds some
\* number of entries, the exit flag and the error count are clear.
RunForeach ==
  /\ pc = "translated"
  /\ \E n \in 0..MaxEntries :
       mach' = [StartMachine(prog,
                  (MapAddr(internal_map_idx, EXIT) :> 0)
                  @@ (MapAddr(internal_map_idx, ERRORS) :> 0)
                  @@ (MapAddr(internal_map_idx, GlobalLong.idx) :> 5),
                  (BPF_REG_1 :> CtxBase))
                EXCEPT !.entries = n]
  /\ pc' = "run"
  /\ UNCHANGED <<prog, u, requested, inp, drv, ctl, hist>>

NextForeach ==
  \/ TranslateForeach
  \/ VisitBreak
  \/ VisitContinue
  \/ VisitSymbol
  \/ EndForeachBody
  \/ FinishTranslate
  \/ RunForeach
  \/ ExecStraight
  \/ ExecJcond
  \/ ExecFallthru
  \/ ExecCall
  \/ ExecExit

SpecForeach == InitProbe /\ [][NextForeach]_vars

NextKeyCalls ==
  Cardinality({k \in 1..Len(mach.calls) : mach.calls[k] = "map_get_next_key"})

\* The program of a foreach with the declared limit L runs.
RunsWithLimit(L) ==
  /\ pc = "run" /\ hist.loops # <<>>
  /\ hist.loops[1].limit = Imm(L)

\* C8 as claimed: a run of the loop of a foreach with the declared limit L
\* over a map that holds more than L entries makes no more than L
\* get-next-key calls, the seeding call counted.
C8_AtMostLimitCalls ==
  \A L \in 0..(MaxLimit + 1) :
    (RunsWithLimit(L) /\ mach.entries > L) => NextKeyCalls <= L

\* C8 as the code has it, with a get-next-key helper that hands out no key
\* once the limit it is passed is 0: the run makes no more than L + 1
\* get-next-key calls, of which no more than L hand out a key; a loop whose
\* body has no break reaches the join block after exactly L + 1 calls, the
\* last of which is the one that is refused.
C8_AtMostLimitPlusOneCalls ==
  \A L \in 0..(MaxLimit + 1) :
    (RunsWithLimit(L) /\ mach.entries > L) =>
      /\ NextKeyCalls <= L + 1
      /\ mach.iter <= L
      /\ (drv.nstmts = 0 /\ mach.blk = hist.loops[1].join_block) =>
           NextKeyCalls = L + 1 /\ mach.iter = L

C8_Witness ==
  /\ RunsWithLimit(2) /\ mach.entries > 2
  /\ drv.nstmts = 0 /\ mach.blk = hist.loops[1].join_block
  /\ NextKeyCalls = 3 /\ mach.iter = 2

-----------------------------------------------------------------------------
(* Specification SpecPrint: a probe whose body is made of formatted prints  *)
(* is translated and run; mach.sent holds the transport messages           *)

MaxPrints == 2

\* The argument expressions of the prints: a literal number, a literal
\* string, a global long.
NumArg(v) == [k |-> "number", v |-> v, s |-> <<>>, g |-> GlobalLong, type |-> pe_long]
StrArg(str) == [k |-> "string", v |-> 0, s |-> str, g |-> GlobalLong, type |-> pe_string]
SymArg == [k |-> "symbol", v |-> 0, s |-> <<>>, g |-> GlobalLong, type |-> pe_long]

\* printf(fmt, args...), sprintf(fmt, args...), println(args...)
Printf(fmt, args, to_stream) ==
  [hist |-> FALSE, args |-> args, print_with_format |-> TRUE,
   raw_components |-> fmt, print_with_delim |-> FALSE, delimiter |-> <<>>,
   print_with_newline |-> FALSE, print_to_stream |-> to_stream]
Println(args) ==
  [hist |-> FALSE, args |-> args, print_with_format |-> FALSE,
   raw_components |-> <<>>, print_with_delim |-> FALSE, delimiter |-> <<>>,
   print_with_newline |-> TRUE, print_to_stream |-> TRUE]

\* printf("hi\n"), printf("%d", 7), printf("%s=%d", "a", g),
\* printf("%d%%%s", g, "a"), println(g), printf("%d"), sprintf("%d", 7)
PrintExprs ==
  { Printf(<<104, 105, 92, 110>>, <<>>, TRUE),
    Printf(<<37, 100>>, <<NumArg(7)>>, TRUE),
    Printf(<<37, 115, 61, 37, 100>>, <<StrArg(<<97>>), SymArg>>, TRUE),
    Printf(<<37, 100, 37, 37, 37, 115>>, <<SymArg, StrArg(<<97>>)>>, TRUE),
    Println(<<SymArg>>),
    Printf(<<37, 100>>, <<>>, TRUE),
    Printf(<<37, 100>>, <<NumArg(7)>>, FALSE) }

\* translate_probe is entered for a probe of either target.
TranslatePrint ==
  /\ pc = "idle"
  /\ \E t \in Targets :
       LET cx == translate_probe_enter(NewProgram(t), NewGlobals, 0, 1)
       IN /\ After(cx, "body")
          /\ hist' = [hist EXCEPT !.bodies = {cx.u.this_ins}]
  /\ drv' = [NoDriver EXCEPT !.kind = "probe", !.n = 1, !.max = MaxPrints]
  /\ UNCHANGED <<requested, mach, inp, ctl>>

\* A formatted print; hist.prints keeps what the script asked to print.
VisitPrintFormat ==
  /\ CanVisit
  /\ \E e \in PrintExprs :
       LET cx == visit_print_format(Cx(prog, u), e)
       IN /\ After(cx, "body")
          /\ hist' = IF ~Stopped(cx) /\ e.print_to_stream
                     THEN [hist EXCEPT !.prints = Append(@,
                            [format |-> PrintFormatOf(e),
                             types |-> [i \in 1..Len(e.args) |-> e.args[i].type],
                             args |-> e.args])]
                     ELSE hist
  /\ Visited
  /\ UNCHANGED <<requested, mach, inp, ctl>>

NextPrint ==
  \/ TranslatePrint
  \/ VisitPrintFormat
  \/ EmbeddedRegisterError
  \/ FinishTranslate
  \/ RunProgram
  \/ ExecStraight
  \/ ExecJcond
  \/ ExecFallthru
  \/ ExecCall
  \/ ExecExit

SpecPrint == InitProbe /\ [][NextPrint]_vars

PrintfTags ==
  {STP_PRINTF_START, STP_PRINTF_FORMAT, STP_PRINTF_ARG_LONG,
   STP_PRINTF_ARG_STR, STP_PRINTF_END}

\* Message m is the o-th message of the print pr: START with the number of
\* arguments, FORMAT with the index at which the format is interned, one
\* message per argument tagged by its type (a long carries its value), END.
IsMessageOf(m, pr, o) ==
  LET n == Len(pr.types)
  IN IF o = 1 THEN m.tag = STP_PRINTF_START /\ m.arg = n
     ELSE IF o = 2
     THEN /\ m.tag = STP_PRINTF_FORMAT
          /\ m.arg + 1 \in 1..Len(u.glob.interned_strings)
          /\ u.glob.interned_strings[m.arg + 1] = pr.format
     ELSE IF o <= n + 2
     THEN IF pr.types[o - 2] = pe_long
          THEN /\ m.tag = STP_PRINTF_ARG_LONG
               /\ m.arg = (IF pr.args[o - 2].k = "number"
                           THEN pr.args[o - 2].v ELSE 5)
          ELSE m.tag = STP_PRINTF_ARG_STR
     ELSE m.tag = STP_PRINTF_END

\* The messages sent from position i on are, apart from messages that are
\* not of a print, the messages of the prints k, k + 1, ... in order, those
\* of one print next to each other; only the last print may be cut short,
\* and only while the program runs.
RECURSIVE SentFrom(_, _)
SentFrom(i, k) ==
  IF i > Len(mach.sent) THEN TRUE
  ELSE IF mach.sent[i].tag \notin PrintfTags THEN SentFrom(i + 1, k)
  ELSE /\ k <= Len(hist.prints)
       /\ LET len == Len(hist.prints[k].types) + 3
              have == IF Len(mach.sent) - i + 1 < len
                      THEN Len(mach.sent) - i + 1 ELSE len
          IN /\ \A o \in 1..have :
                  IsMessageOf(mach.sent[i + o - 1], hist.prints[k], o)
             /\ have < len => mach.state = "run"
             /\ SentFrom(i + have, k + 1)

\* C10: the transport messages of every formatted print are START with the
\* number n of arguments, FORMAT with the index of the interned format, n
\* argument messages in argument order tagged LONG or STR by the type of
\* the argument, END, with no other message between START and END.
C10_PrintfSequence ==
  pc = "run" => SentFrom(1, 1)

C10_Witness ==
  /\ pc = "run" /\ mach.state = "exit"
  /\ Len(hist.prints) = 2
  /\ Len(hist.prints[1].types) = 2 /\ hist.prints[1].types[1] = pe_string
  /\ Len(hist.prints[2].types) = 2 /\ hist.prints[2].types[1] = pe_long
  /\ Len(mach.sent) = 10
  /\ mach.sent[5].tag = STP_PRINTF_END /\ mach.sent[10].tag = STP_PRINTF_END

-----------------------------------------------------------------------------
(* Specification SpecTmp: any sequence of use_tmp_space calls on a Program *)

MaxCalls == 4

TmpSizes == {0, 4, 8, 16, 72, 511, 512, 513, 65535, 65536, 65537}

InitTmp ==
  /\ \E t \in Targets : prog = NewProgram(t)
  /\ u = NoUnparser
  /\ pc = "ready"
  /\ requested = <<>>
  /\ mach = NoMachine
  /\ inp = [kind |-> "none"]
  /\ drv = NoDriver /\ ctl = <<>> /\ hist = NoHistory

\* One call of use_tmp_space(bytes); a failed assertion aborts the process.
UseTmpSpace(bytes) ==
  /\ pc = "ready"
  /\ Len(requested) < MaxCalls
  /\ prog' = use_tmp_space(prog, bytes)
  /\ pc' = IF tmp_space_ok(prog') THEN "ready" ELSE "abort"
  /\ requested' = Append(requested, bytes)
  /\ UNCHANGED <<u, mach, inp, drv, ctl, hist>>

NextTmp == \E bytes \in TmpSizes : UseTmpSpace(bytes)

SpecTmp == InitTmp /\ [][NextTmp]_vars

\* The largest size requested so far (0 before the first call).
MaxRequested ==
  IF requested = <<>> THEN 0
  ELSE CHOOSE x \in {requested[i] : i \in DOMAIN requested} :
         \A i \in DOMAIN requested : requested[i] <= x

\* C5: after any sequence of use_tmp_space calls max_tmp_space is the
\* largest size requested so far, it never decreases, and the process has
\* failed hard exactly when the maximum exceeds the target's stack ceiling
\* (512 for the kernel target, 65536 for the interpreter target).
C5_TmpSpaceMax ==
  /\ [](/\ prog.max_tmp_space = MaxRequested
        /\ (pc = "abort") <=> (prog.max_tmp_space > MAX_BPF_STACK(prog.target)))
  /\ [][prog'.max_tmp_space >= prog.max_tmp_space]_vars

\* use_tmp_space(8), use_tmp_space(4) left the maximum at 8, and then
\* use_tmp_space(ceiling + 1) failed.
C5_Witness ==
  /\ Len(requested) = 3
  /\ requested[1] = 8 /\ requested[2] = 4
  /\ requested[3] = MAX_BPF_STACK(prog.target) + 1
  /\ pc = "abort"

-----------------------------------------------------------------------------
(* Function calls: every call is inlined                                   *)

\* The functions of the script (functiondecl): the number of formal
\* arguments and of locals, whether the body is embedded code, and whether
\* the body ends in "return <number>".
Funcs == {"exit", "g", "h"}
FunctionDecl ==
  [f \in Funcs |->
     CASE f = "exit" -> [name |-> f, formal_args |-> 0, locals |-> 0,
                         embedded |-> FALSE, returns |-> FALSE]
       [] f = "g"    -> [name |-> f, formal_args |-> 0, locals |-> 1,
                         embedded |-> TRUE, returns |-> FALSE]
       [] f = "h"    -> [name |-> f, formal_args |-> 1, locals |-> 1,
                         embedded |-> FALSE, returns |-> TRUE]]

\* "for (auto i = func_calls.begin(); ...) if (f == *i) throw": the function
\* is being inlined already.
OnCallStack(cx, f) == \E i \in 1..Len(cx.u.func_calls) : cx.u.func_calls[i] = f

\* visit_functioncall: "for (i = 0; i < n; ++i) { r = new_reg();
\* emit_mov(r, emit_expr(e->args[i])); }" with number literals as arguments.
RECURSIVE CallArgs(_, _)
CallArgs(cx, n) ==
  IF n = 0 \/ Stopped(cx) THEN cx
  ELSE CallArgs(Then([c1 \in {new_reg(cx)} |->
                mk_mov(c1, Reg(NextReg(cx)), Imm(1))]), n - 1)

\* bpf_unparser::emit_functioncall up to the visit of the body: the locals,
\* the join block, the register of the return value, and the three stacks
\* that describe the function being inlined.
emit_functioncall_enter(cx, f) ==
  Then([c1 \in {new_locals(cx, f.locals)} |->
  Then([c2 \in {new_block(c1)} |->
  Then([c3 \in {new_reg(c2)} |->
    [c3 EXCEPT !.u.func_calls = Append(@, f.name),
               !.u.func_return = Append(@, NextBlock(c1)),
               !.u.func_return_val = Append(@, Reg(NextReg(c2)))]])])])

\* bpf_unparser::emit_functioncall after the body: the stacks are popped, the
\* body's end joins join_block, which becomes current; retval is the result.
emit_functioncall_leave(cx, join_block, retval) ==
  Then([c1 \in {[cx EXCEPT !.u.func_calls = PopBack(@),
                           !.u.func_return = PopBack(@),
                           !.u.func_return_val = PopBack(@)]} |->
  Then([c2 \in {IF in_block(c1) THEN emit_jmp(c1, join_block) ELSE c1} |->
  Then([c3 \in {set_block(c2, join_block)} |->
    [c3 EXCEPT !.u.result = retval]])])])

\* bpf_unparser::visit_functioncall up to the visit of the body, without the
\* loop over func_calls.
visit_functioncall_enter_unchecked(cx, f) ==
  Then([c1 \in {CallArgs(cx, f.formal_args)} |->
    emit_functioncall_enter(c1, f)])

\* bpf_unparser::visit_functioncall up to the visit of the body (one
\* referent): a function that is being inlined already is refused.
visit_functioncall_enter(cx, f) ==
  IF OnCallStack(cx, f.name) THEN throw(cx)
  ELSE Then([c1 \in {CallArgs(cx, f.formal_args)} |->
         emit_functioncall_enter(c1, f)])

\* visit_embeddedcode, "call" directive naming no helper and no print
\* function, with nargs parameters (immediates) and destination "-": only
\* exit() is resolved; a function that is being inlined already is refused;
\* the argument count has to match.
embedded_call_enter(cx, f, nargs) ==
  IF f.name # "exit" THEN throw(cx)
  ELSE IF OnCallStack(cx, f.name) THEN throw(cx)
  ELSE IF nargs # f.formal_args THEN throw(cx)
  ELSE emit_functioncall_enter(cx, f)

\* bpf_unparser::visit_return_statement with a number as the value.
visit_return_statement(cx, n) ==
  IF cx.u.func_return = <<>> THEN throw(cx)
  ELSE Then([c1 \in {mk_mov(cx, Back(cx.u.func_return_val), Imm(n))} |->
         emit_jmp(c1, Back(c1.u.func_return))])

-----------------------------------------------------------------------------
(* Specification SpecCall: a probe whose body calls a function of a script *)
(* with an arbitrary call graph is translated                              *)

MaxCallSites == 3
MaxInline == 4

\* The calls of a body, in order.
Bodies(n) == [1..n -> Funcs]

\* The scripts: a function to call from the probe, and the calls in the
\* body of each function, at most MaxCallSites in all.
CallGraphs ==
  UNION {UNION {UNION {
    {[kind |-> "calls", root |-> root,
      body |-> [f \in Funcs |-> CASE f = "exit" -> b1
                                  [] f = "g" -> b2
                                  [] f = "h" -> b3]] :
       root \in Funcs, b1 \in Bodies(l1), b2 \in Bodies(l2), b3 \in Bodies(l3)} :
    l3 \in 0..(MaxCallSites - l1 - l2)} :
    l2 \in 0..(MaxCallSites - l1)} :
    l1 \in 0..MaxCallSites}

\* translate_probe(prog, glob, dp) is entered; the body of the probe is the
\* call of a function of the script.
TranslateCalls ==
  /\ pc = "idle"
  /\ LET cx == translate_probe_enter(NewProgram(target_user_bpfinterp),
                                     NewGlobals, 0, 1)
     IN /\ After(cx, "body")
        /\ hist' = [hist EXCEPT !.bodies = {cx.u.this_ins}]
  /\ inp' \in CallGraphs
  /\ drv' = [NoDriver EXCEPT !.kind = "probe", !.n = 1, !.max = 1]
  /\ UNCHANGED <<requested, mach, ctl>>

\* The call the translator visits next: in the function being inlined, or
\* in the body of the probe.
InFunction == ctl # <<>>
Caller == Back(ctl).f
HasCallSite ==
  IF InFunction THEN Back(ctl).pos <= Len(inp.body[Caller])
  ELSE drv.nstmts < drv.max
Callee ==
  IF InFunction THEN inp.body[Caller][Back(ctl).pos] ELSE inp.root
CallerEmbedded == InFunction /\ FunctionDecl[Caller].embedded

\* The construct stack after the call has been entered: the caller is past
\* the call site, the callee at its first statement, with emit_functioncall's
\* join_block and retval.
EnterCall(cx) ==
  /\ ctl' = IF Stopped(cx) THEN ctl
            ELSE Append(IF InFunction
                        THEN [ctl EXCEPT ![Len(ctl)].pos = @ + 1] ELSE ctl,
                        [kind |-> "call", f |-> Callee, pos |-> 1,
                         returned |-> FALSE,
                         join_block |-> Back(cx.u.func_return),
                         retval |-> Back(cx.u.func_return_val)])
  /\ drv' = IF InFunction THEN drv ELSE [drv EXCEPT !.nstmts = @ + 1]
  /\ hist' = [hist EXCEPT
       !.thrown_by = IF OnCallStack(Cx(prog, u), Callee) THEN "recursion"
                     ELSE @]

\* f(...) in a script body: visit_functioncall is entered.
VisitFunctioncall ==
  /\ pc = "body" /\ HasCallSite /\ ~CallerEmbedded
  /\ Len(ctl) < MaxInline
  /\ LET cx == visit_functioncall_enter(Cx(prog, u), FunctionDecl[Callee])
     IN After(cx, "body") /\ EnterCall(cx)
  /\ UNCHANGED <<requested, mach, inp>>

\* "call, -, f" in an embedded-code body.
EmbeddedCall ==
  /\ pc = "body" /\ HasCallSite /\ CallerEmbedded
  /\ Len(ctl) < MaxInline
  /\ LET cx == embedded_call_enter(Cx(prog, u), FunctionDecl[Callee], 0)
     IN After(cx, "body") /\ EnterCall(cx)
  /\ UNCHANGED <<requested, mach, inp>>

\* "return 1" ends the body of the function being inlined.
VisitReturnStatement ==
  /\ pc = "body" /\ InFunction /\ ~HasCallSite
  /\ FunctionDecl[Caller].returns /\ ~Back(ctl).returned
  /\ After(visit_return_statement(Cx(prog, u), 1), "body")
  /\ ctl' = [ctl EXCEPT ![Len(ctl)].returned = TRUE]
  /\ UNCHANGED <<requested, mach, inp, drv, hist>>

\* The body of the function being inlined has been visited:
\* emit_functioncall goes on after emit_stmt(f->body).
EndFunctionBody ==
  /\ pc = "body" /\ InFunction /\ ~HasCallSite
  /\ FunctionDecl[Caller].returns => Back(ctl).returned
  /\ After(emit_functioncall_leave(Cx(prog, u), Back(ctl).join_block,
                                   Back(ctl).retval), "body")
  /\ ctl' = PopBack(ctl)
  /\ UNCHANGED <<requested, mach, inp, drv, hist>>

\* The body of the probe has been visited: translate_probe returns.
FinishCalls ==
  /\ ~HasCallSite
  /\ FinishTranslate

\* The steps of the translator once translate_probe has been entered.
InlineStep ==
  \/ VisitFunctioncall
  \/ EmbeddedCall
  \/ VisitReturnStatement
  \/ EndFunctionBody
  \/ FinishCalls

NextCall ==
  \/ TranslateCalls
  \/ InlineStep

\* The translator, once entered, runs on.
SpecCall == InitProbe /\ [][NextCall]_vars /\ WF_vars(InlineStep)

NoDuplicates(s) == \A i, j \in 1..Len(s) : s[i] = s[j] => i = j

\* C11: a call to a function that is already being inlined, direct or
\* mutual, in a script body or by the call directive of embedded code, ends
\* the translation with an error; so func_calls never holds a function
\* twice, is never deeper than the number of functions, and the translation
\* of every call graph comes to an end.
C11_RecursionRefused ==
  /\ [](/\ NoDuplicates(u.func_calls)
        /\ Len(u.func_calls) <= Cardinality(Funcs)
        /\ Len(u.func_return) = Len(u.func_calls)
        /\ Len(u.func_return_val) = Len(u.func_calls)
        /\ (hist.thrown_by = "recursion" => pc = "error"))
  /\ (pc = "body") ~> (pc \in {"translated", "error"})

\* Mutual recursion found by the call directive: exit() is being inlined,
\* has called g(), and g's embedded code calls exit.
C11_Witness ==
  /\ pc = "error" /\ hist.thrown_by = "recursion"
  /\ u.func_calls = <<"exit", "g">>
  /\ inp.body["g"] # <<>> /\ inp.body["g"][1] = "exit"

-----------------------------------------------------------------------------
(* translate_globals: the storage layout of the script's globals           *)

NUM_INTERNALS == 2
NUM_CPUS_PLACEHOLDER == 0
BPF_MAXMAPENTRIES == 2048
BPF_MAXKEYLEN == 512

pe_stats == "pe_stats"

\* globals::stat_fields
stat_fields == <<"count", "sum">>

\* struct globals::bpf_map_def { type, key_size, value_size, max_entries,
\* map_flags } and struct globals::map_slot { map_id, idx }.
BpfMapDef(type, key_size, value_size, max_entries) ==
  [type |-> type, key_size |-> key_size, value_size |-> value_size,
   max_entries |-> max_entries, map_flags |-> 0]
MapSlot(map_id, idx) == [map_id |-> map_id, idx |-> idx]

\* A function with no element, and a function of one element.
NoEntries == [x \in {} |-> 0]
Entry(k, v) == [x \in {k} |-> v]

\* The Globals the planner fills in: maps (map_idx i is maps[i + 1]), the
\* slot of each variable, scalar_stats and array_stats (stat field -> map),
\* the agg_idx of each array aggregate; long_map and str_map are the locals
\* of translate_globals.
NewLayout ==
  [maps |-> <<>>, globals |-> NoEntries, scalar_stats |-> NoEntries,
   array_stats |-> NoEntries, aggregates |-> NoEntries,
   long_map |-> -1, str_map |-> -1, this |-> MapSlot(-1, -1),
   error |-> FALSE, crash |-> FALSE]

\* glob.maps.size() and glob.maps.push_back(m)
MapsSize(g) == Len(g.maps)
PushMap(g, m) == [g EXCEPT !.maps = Append(@, m)]
\* "glob.maps[map_id].max_entries++"
MaxEntriesOf(g, map_id) == g.maps[map_id + 1].max_entries
BumpMaxEntries(g, map_id) == [g EXCEPT !.maps[map_id + 1].max_entries = @ + 1]
\* glob.globals.insert(pair(v, slot)): an existing slot is kept, and the
\* assertion on the result then fails.
InsertGlobal(g, name, slot) ==
  IF name \in DOMAIN g.globals THEN [g EXCEPT !.crash = TRUE]
  ELSE [g EXCEPT !.globals = @ @@ Entry(name, slot)]

\* glob.globals.insert(...) with no look at the result.
InsertKept(g, name, slot) ==
  IF name \in DOMAIN g.globals THEN g
  ELSE [g EXCEPT !.globals = @ @@ Entry(name, slot)]

\* build_internal_globals: the exit flag and the error counter in map 0,
\* the perf event map as map 1.
build_internal_globals(g) ==
  PushMap(PushMap(
    InsertKept(InsertKept(g, "__STAPBPF_exit", MapSlot(0, EXIT)),
                 "__STAPBPF_errors", MapSlot(0, ERRORS)),
    BpfMapDef("BPF_MAP_TYPE_HASH", 4, 8, NUM_INTERNALS)),
    BpfMapDef("BPF_MAP_TYPE_PERF_EVENT_ARRAY", 4, 4, NUM_CPUS_PLACEHOLDER))

\* The faulty variant: every long scalar gets a map of its own.
ScalarLong_separate(g) ==
  [PushMap(g, BpfMapDef("BPF_MAP_TYPE_ARRAY", 4, 8, 0))
     EXCEPT !.long_map = MapsSize(g)]

\* case pe_long of a scalar: the shared map of the long scalars.
ScalarLong(g) ==
  IF g.long_map < 0
  THEN [PushMap(g, BpfMapDef("BPF_MAP_TYPE_ARRAY", 4, 8, 0))
          EXCEPT !.long_map = MapsSize(g)]
  ELSE g
\* case pe_string of a scalar: the shared map of the string scalars.
ScalarStr(g) ==
  IF g.str_map < 0
  THEN [PushMap(g, BpfMapDef("BPF_MAP_TYPE_ARRAY", 4, BPF_MAXSTRINGLEN, 0))
          EXCEPT !.str_map = MapsSize(g)]
  ELSE g

\* The faulty variant: the fields of the scalar aggregates are kept in
\* plain arrays, one copy for all CPUs.
RECURSIVE ScalarStatMaps_shared(_, _)
ScalarStatMaps_shared(g, i) ==
  IF i > Len(stat_fields) THEN g
  ELSE ScalarStatMaps_shared(
         [PushMap(g, BpfMapDef("BPF_MAP_TYPE_ARRAY", 4, 8, 0))
            EXCEPT !.scalar_stats = Entry(stat_fields[i], MapsSize(g)) @@ @],
         i + 1)

\* case pe_stats of a scalar, first loop: one per-CPU array per stat field,
\* made for the first scalar aggregate.
RECURSIVE ScalarStatMaps(_, _)
ScalarStatMaps(g, i) ==
  IF i > Len(stat_fields) THEN g
  ELSE ScalarStatMaps(
         [PushMap(g, BpfMapDef("BPF_MAP_TYPE_PERCPU_ARRAY", 4, 8, 0))
            EXCEPT !.scalar_stats = Entry(stat_fields[i], MapsSize(g)) @@ @],
         i + 1)
\* case pe_stats of a scalar, second loop: one more element in each field's
\* array; all the arrays have to be of the same length.
RECURSIVE ScalarStatSlot(_, _, _)
ScalarStatSlot(g, i, this_idx) ==
  IF i > Len(stat_fields) \/ g.crash THEN g
  ELSE IF this_idx # -1
          /\ MaxEntriesOf(g, g.scalar_stats[stat_fields[i]]) # this_idx
       THEN [g EXCEPT !.crash = TRUE]
       ELSE ScalarStatSlot(BumpMaxEntries(g, g.scalar_stats[stat_fields[i]]),
                           i + 1,
                           MaxEntriesOf(g, g.scalar_stats[stat_fields[i]]))

\* The key of an array: 8 bytes for a long index, BPF_MAXSTRINGLEN for a
\* string index; -1 for an index of another type ("unhandled index type").
RECURSIVE KeySize(_, _)
KeySize(index_types, element) ==
  IF element = 0 THEN 0
  ELSE IF index_types[element] \notin {pe_long, pe_string}
          \/ KeySize(index_types, element - 1) < 0 THEN -1
       ELSE KeySize(index_types, element - 1)
            + (IF index_types[element] = pe_long THEN 8 ELSE BPF_MAXSTRINGLEN)
MapCapacity(v) == IF v.maxsize > 0 THEN v.maxsize ELSE BPF_MAXMAPENTRIES

\* The faulty variant: the agg_idx is given once, when the array is first
\* seen.
RECURSIVE ArrayStatMaps_once(_, _, _)
ArrayStatMaps_once(g, v, i) ==
  IF i > Len(stat_fields) THEN g
  ELSE ArrayStatMaps_once(
         [PushMap(g, BpfMapDef("BPF_MAP_TYPE_PERCPU_HASH",
                               KeySize(v.index_types, v.arity), 8,
                               MapCapacity(v)))
            EXCEPT !.array_stats =
                     Entry(v.name,
                           Entry(stat_fields[i], MapsSize(g))
                           @@ (IF v.name \in DOMAIN @ THEN @[v.name]
                               ELSE NoEntries)) @@ @,
                   !.aggregates =
                     @ @@ Entry(v.name, 1 + Cardinality(DOMAIN @))],
         v, i + 1)

\* An array of aggregates: per stat field a per-CPU hash map, and
\* "glob.aggregates[v] = 1 + glob.aggregates.size()" once per stat field
\* (the right-hand side is taken before the element is made; from the
\* second field on v is an element, whichever side is taken first).
RECURSIVE ArrayStatMaps(_, _, _)
ArrayStatMaps(g, v, i) ==
  IF i > Len(stat_fields) THEN g
  ELSE ArrayStatMaps(
         [PushMap(g, BpfMapDef("BPF_MAP_TYPE_PERCPU_HASH",
                               KeySize(v.index_types, v.arity), 8,
                               MapCapacity(v)))
            EXCEPT !.array_stats =
                     Entry(v.name,
                           Entry(stat_fields[i], MapsSize(g))
                           @@ (IF v.name \in DOMAIN @ THEN @[v.name]
                               ELSE NoEntries)) @@ @,
                   !.aggregates =
                     Entry(v.name, 1 + Cardinality(DOMAIN @)) @@ @],
         v, i + 1)

\* The slot translate_globals gives one variable; g.this is the slot
\* (this_map, this_idx) on the way to glob.globals.
PlanScalar(g, v) ==
  IF v.type = pe_long
  THEN [BumpMaxEntries(ScalarLong(g), ScalarLong(g).long_map) EXCEPT
          !.this = MapSlot(ScalarLong(g).long_map,
                           MaxEntriesOf(ScalarLong(g), ScalarLong(g).long_map))]
  ELSE IF v.type = pe_string
  THEN [BumpMaxEntries(ScalarStr(g), ScalarStr(g).str_map) EXCEPT
          !.this = MapSlot(ScalarStr(g).str_map,
                           MaxEntriesOf(ScalarStr(g), ScalarStr(g).str_map))]
  ELSE IF v.type = pe_stats
  THEN [ScalarStatSlot(IF DOMAIN g.scalar_stats = {}
                       THEN ScalarStatMaps(g, 1) ELSE g, 1, -1) EXCEPT
          !.this = MapSlot(-1,
                     IF DOMAIN g.scalar_stats = {} THEN 0
                     ELSE MaxEntriesOf(g, g.scalar_stats[stat_fields[1]]))]
  ELSE [g EXCEPT !.error = TRUE]

PlanArray(g, v) ==
  IF KeySize(v.index_types, v.arity) < 0 THEN [g EXCEPT !.error = TRUE]
  ELSE IF v.type = pe_stats
  THEN [ArrayStatMaps(g, v, 1) EXCEPT !.this = MapSlot(-1, -1)]
  ELSE IF v.type \notin {pe_long, pe_string} THEN [g EXCEPT !.error = TRUE]
  ELSE [PushMap(g, BpfMapDef("BPF_MAP_TYPE_HASH",
                             KeySize(v.index_types, v.arity),
                             IF v.type = pe_long THEN 8 ELSE BPF_MAXSTRINGLEN,
                             MapCapacity(v)))
          EXCEPT !.this = MapSlot(MapsSize(g), -1)]

\* One turn of the loop of translate_globals over s.globals.
PlanGlobal(g, v) ==
  IF g.error \/ g.crash THEN g
  ELSE IF g.this.map_id = internal_map_idx THEN [g EXCEPT !.crash = TRUE]
  ELSE InsertGlobal(g, v.name, g.this)

RECURSIVE PlanGlobals(_, _, _)
PlanGlobals(g, decls, i) ==
  IF i > Len(decls) \/ g.error \/ g.crash THEN g
  ELSE PlanGlobals(
         PlanGlobal(IF decls[i].arity = 0 THEN PlanScalar(g, decls[i])
                    ELSE PlanArray(g, decls[i]), decls[i]),
         decls, i + 1)

\* translate_globals(glob, s) for the globals of the session, in order.
translate_globals(glob, decls) ==
  PlanGlobals(build_internal_globals([glob EXCEPT !.long_map = -1,
                                                  !.str_map = -1]), decls, 1)


-----------------------------------------------------------------------------
(* Specification SpecLimits: inputs at and over the ceilings of the        *)
(* generator: an array of up to MaxArity dimensions is planned, or a probe *)
(* with long string literals and long prints is translated                 *)

MaxArity == 9
MaxLimitStmts == 2

\* bpf_unparser::emit_literal_string
emit_literal_string(cx, str) ==
  IF Len(str) + 1 > BPF_MAXSTRINGLEN THEN throw(cx)
  ELSE [cx EXCEPT !.u.result = Str(str)]

\* A global array of long with the given index types.
ArrayDecl(index_types) ==
  [name |-> "a", arity |-> Len(index_types), type |-> pe_long,
   index_types |-> index_types, maxsize |-> 0]

\* A literal of n characters; a format of n characters with one directive
\* per argument.
Chars(n) == [i \in 1..n |-> 97]
FormatFor(n, nargs) ==
  [i \in 1..n |-> IF i > 2 * nargs THEN 97
                  ELSE IF (i % 2) = 1 THEN 37 ELSE 100]
LiteralSizes == (BPF_MAXSTRINGLEN - 2)..(BPF_MAXSTRINGLEN + 1)
FormatSizes == (BPF_MAXFORMATLEN - 2)..BPF_MAXFORMATLEN
ArgCounts ==
  {0, BPF_MAXSPRINTFARGS, BPF_MAXSPRINTFARGS + 1,
   BPF_MAXPRINTFARGS, BPF_MAXPRINTFARGS + 1}

LimitsDriver(kind, glob) ==
  [kind |-> kind, i |-> 0, n |-> 1, this_block |-> NoBlock,
   nstmts |-> 0, max |-> MaxLimitStmts, glob |-> glob,
   last |-> [kind |-> "none", chars |-> 0, nargs |-> 0, stream |-> TRUE]]

\* translate_globals(glob, s) for a session whose only global is an array.
TranslateGlobals ==
  /\ pc = "idle"
  /\ \E k \in 1..MaxArity : \E index_types \in [1..k -> {pe_long, pe_string}] :
       LET g == translate_globals(NewLayout, <<ArrayDecl(index_types)>>)
       IN /\ drv' = LimitsDriver("globals", g)
          /\ pc' = IF g.crash THEN "crash" ELSE IF g.error THEN "error"
                   ELSE "planned"
  /\ UNCHANGED <<prog, u, requested, mach, inp, ctl, hist>>

\* translate_probe is entered for a probe of the user target.
TranslateLimits ==
  /\ pc = "idle"
  /\ LET cx == translate_probe_enter(NewProgram(target_user_bpfinterp),
                                     NewGlobals, 0, 1)
     IN /\ After(cx, "body")
        /\ hist' = [hist EXCEPT !.bodies = {cx.u.this_ins}]
  /\ drv' = LimitsDriver("probe", NewLayout)
  /\ UNCHANGED <<requested, mach, inp, ctl>>

\* A string literal of n characters.
VisitLiteralString ==
  /\ CanVisit
  /\ \E n \in LiteralSizes :
       /\ After(emit_literal_string(Cx(prog, u), Chars(n)), "body")
       /\ drv' = [drv EXCEPT !.nstmts = @ + 1,
                             !.last = [kind |-> "string", chars |-> n,
                                       nargs |-> 0, stream |-> TRUE]]
  /\ UNCHANGED <<requested, mach, inp, ctl, hist>>

\* printf or sprintf with a format of n characters and nargs arguments.
VisitLongPrint ==
  /\ CanVisit
  /\ \E n \in FormatSizes, nargs \in ArgCounts, stream \in BOOLEAN :
       /\ After(visit_print_format(Cx(prog, u),
                  Printf(FormatFor(n, nargs), [i \in 1..nargs |-> NumArg(7)],
                         stream)), "body")
       /\ drv' = [drv EXCEPT !.nstmts = @ + 1,
                             !.last = [kind |-> "print", chars |-> n,
                                       nargs |-> nargs, stream |-> stream]]
  /\ UNCHANGED <<requested, mach, inp, ctl, hist>>

NextLimits ==
  \/ TranslateGlobals
  \/ TranslateLimits
  \/ VisitLiteralString
  \/ VisitLongPrint
  \/ FinishTranslate

SpecLimits == InitProbe /\ [][NextLimits]_vars

\* The input handed to the generator last is over a ceiling of the
\* literals and prints.
OverLiteralCeiling ==
  drv.kind = "probe" /\ drv.last.kind = "string"
  /\ drv.last.chars > BPF_MAXSTRINGLEN - 1
OverPrintCeiling ==
  /\ drv.kind = "probe" /\ drv.last.kind = "print"
  /\ \/ drv.last.chars + 1 > BPF_MAXFORMATLEN
     \/ drv.last.nargs > BPF_MAXPRINTFARGS
     \/ ~drv.last.stream /\ drv.last.nargs > BPF_MAXSPRINTFARGS

\* C12 (as far as the code goes): a string literal of more than 63
\* characters, a format of more than 256 bytes with its terminator, more
\* than 32 print arguments and more than 3 sprintf arguments end the
\* translation with an error.
C12_LiteralAndPrintCeilings ==
  OverLiteralCeiling \/ OverPrintCeiling => pc = "error"

\* C12: every input over a ceiling is refused: those of the literals and
\* prints, and no array is planned with a map key of more than
\* BPF_MAXKEYLEN bytes.
C12_OverCeilingRejected ==
  /\ OverLiteralCeiling \/ OverPrintCeiling => pc = "error"
  /\ drv.kind = "globals" =>
       \A i \in 1..Len(drv.glob.maps) : drv.glob.maps[i].key_size <= BPF_MAXKEYLEN

\* An array of nine string indices has been planned: its map has a key of
\* 576 bytes.
C12_KeyOverCeilingPlanned ==
  /\ pc = "planned"
  /\ \E i \in 1..Len(drv.glob.maps) : drv.glob.maps[i].key_size > BPF_MAXKEYLEN

-----------------------------------------------------------------------------
(* Statistics aggregation: s <<< val                                       *)

\* bpf_unparser::emit_long_arg: val is stored at frame + ofs and arg is
\* made to point to it.
emit_long_arg(cx, arg, ofs, val) ==
  Then([c1 \in {mk_st(cx, 8, lookup_reg(BPF_REG_10), ofs, val)} |->
    mk_binary(c1, "add", arg, lookup_reg(BPF_REG_10), Imm(ofs))])

\* bpf_unparser::emit_statmap_lookup: dest is the value found under *idx in
\* the map, 0 when the lookup gives null.
emit_statmap_lookup(cx, dest, map_id, idx) ==
  Then([c1 \in {load_map(cx, lookup_reg(BPF_REG_1), map_id)} |->
  Then([c2 \in {mk_mov(c1, lookup_reg(BPF_REG_2), idx)} |->
  Then([c3 \in {mk_call(c2, "map_lookup_elem", 2)} |->
  Then([c4 \in {new_block(new_block(c3))} |->
  Then([c5 \in {mk_mov(c4, dest, Imm(0))} |->
  Then([c6 \in {mk_jcond(c5, "EQ", lookup_reg(BPF_REG_0), Imm(0),
                         NextBlock(c3) + 1, NextBlock(c3))} |->
  Then([c7 \in {set_block(c6, NextBlock(c3))} |->
  Then([c8 \in {mk_ld(c7, 8, dest, lookup_reg(BPF_REG_0), 0)} |->
  Then([c9 \in {emit_jmp(c8, NextBlock(c3) + 1)} |->
    set_block(c9, NextBlock(c3) + 1)])])])])])])])])])

\* emit_statmap_update: the value goes on the stack below the index,
\* aligned to a double word.
StatValOfs(idx_ofs) ==
  IF ((8 - idx_ofs) % 8) # 0
  THEN idx_ofs - 8 - (8 - ((8 - idx_ofs) % 8))
  ELSE idx_ofs - 8

\* bpf_unparser::emit_statmap_update: map[*idx] = val.
emit_statmap_update(cx, map_id, idx, idx_ofs, val) ==
  Then([c1 \in {reserve_tmp_space(cx, 0 - StatValOfs(idx_ofs))} |->
  Then([c2 \in {load_map(c1, lookup_reg(BPF_REG_1), map_id)} |->
  Then([c3 \in {mk_mov(c2, lookup_reg(BPF_REG_2), idx)} |->
  Then([c4 \in {emit_long_arg(c3, lookup_reg(BPF_REG_3), StatValOfs(idx_ofs), val)} |->
  Then([c5 \in {mk_mov(c4, lookup_reg(BPF_REG_4), Imm(0))} |->
    mk_call(c5, "map_update_elem", 4)])])])])])

\* emit_aggregation from "block *then_block = ..." on: with the field maps
\* sd and the index at idx, a count of 0 starts the aggregate with count 1
\* and sum val; otherwise count and sum are read, added to and written back.
\* The three blocks are then, else, join; tmp is the new register.
AggThen(cx, sd, val, idx, idx_ofs, join_block) ==
  Then([c1 \in {emit_statmap_update(cx, sd["count"], idx, idx_ofs, Imm(1))} |->
  Then([c2 \in {emit_statmap_update(c1, sd["sum"], idx, idx_ofs, val)} |->
    emit_jmp(c2, join_block)])])
AggElse(cx, sd, val, idx, idx_ofs, tmp, join_block) ==
  Then([c1 \in {emit_statmap_lookup(cx, tmp, sd["count"], idx)} |->
  Then([c2 \in {mk_binary(c1, "add", tmp, tmp, Imm(1))} |->
  Then([c3 \in {emit_statmap_update(c2, sd["count"], idx, idx_ofs, tmp)} |->
  Then([c4 \in {emit_statmap_lookup(c3, tmp, sd["sum"], idx)} |->
  Then([c5 \in {mk_binary(c4, "add", tmp, tmp, val)} |->
  Then([c6 \in {emit_statmap_update(c5, sd["sum"], idx, idx_ofs, tmp)} |->
    emit_jmp(c6, join_block)])])])])])])
AggUpdate(cx, sd, val, idx, idx_ofs) ==
  IF \E i \in 1..Len(stat_fields) : stat_fields[i] \notin DOMAIN sd
  THEN [cx EXCEPT !.u.crash = TRUE]
  ELSE
  Then([c1 \in {new_reg(new_block(new_block(new_block(cx))))} |->
  Then([c2 \in {emit_statmap_lookup(c1, Reg(NextReg(cx)), sd["count"], idx)} |->
  Then([c3 \in {mk_jcond(c2, "EQ", Reg(NextReg(cx)), Imm(0),
                         NextBlock(cx), NextBlock(cx) + 1)} |->
  Then([c4 \in {AggThen(set_block(c3, NextBlock(cx)), sd, val, idx, idx_ofs,
                        NextBlock(cx) + 2)} |->
  Then([c5 \in {AggElse(set_block(c4, NextBlock(cx) + 1), sd, val, idx, idx_ofs,
                        Reg(NextReg(cx)), NextBlock(cx) + 2)} |->
    set_block(c5, NextBlock(cx) + 2)])])])])])

\* bpf_unparser::emit_aggregation(var, ms, val, idx, idx_ofs): for a scalar
\* aggregate the slot's index is stored on the stack and the maps are
\* scalar_stats; for an array they are array_stats[var] and idx points to
\* the key the caller stored.
emit_aggregation(cx, var, ms, val, idx, idx_ofs) ==
  IF ms.map_id >= 0 THEN [cx EXCEPT !.u.crash = TRUE]
  ELSE IF var.arity = 0
  THEN (IF ms.idx < 0 \/ idx # NoVal THEN [cx EXCEPT !.u.crash = TRUE]
        ELSE
        Then([c1 \in {mk_st(cx, 4, lookup_reg(BPF_REG_10), -4, Imm(ms.idx))} |->
        Then([c2 \in {reserve_tmp_space(c1, 4)} |->
        Then([c3 \in {new_reg(c2)} |->
        Then([c4 \in {mk_binary(c3, "add", Reg(NextReg(c2)),
                                lookup_reg(BPF_REG_10), Imm(-4))} |->
          AggUpdate(c4, c4.u.glob.scalar_stats, val, Reg(NextReg(c2)), -4)])])])]))
  ELSE IF ms.idx >= 0 \/ idx = NoVal \/ var.name \notin DOMAIN cx.u.glob.array_stats
  THEN [cx EXCEPT !.u.crash = TRUE]
  ELSE AggUpdate(cx, cx.u.glob.array_stats[var.name], val, idx, idx_ofs)

\* bpf_unparser::emit_store for an aggregate: a scalar, or an array of one
\* long index whose value is in the register key.
emit_store_stats(cx, var, key, val) ==
  IF var.name \notin DOMAIN cx.u.glob.globals THEN throw(cx)
  ELSE IF var.arity = 0
  THEN emit_aggregation(cx, var, cx.u.glob.globals[var.name], val, NoVal, 0)
  ELSE
  Then([c1 \in {emit_long_arg(cx, lookup_reg(BPF_REG_2), -8, key)} |->
  Then([c2 \in {new_reg(c1)} |->
  Then([c3 \in {mk_binary(c2, "add", Reg(NextReg(c1)),
                          lookup_reg(BPF_REG_10), Imm(-8))} |->
  Then([c4 \in {reserve_tmp_space(c3, 8)} |->
    emit_aggregation(c4, var, c4.u.glob.globals[var.name], val,
                     Reg(NextReg(c1)), -8)])])])])


-----------------------------------------------------------------------------
(* Specification SpecAgg: the code of one s <<< val is generated, then run *)
(* by probes that fire on several CPUs at once                             *)

NCpus == 2
MaxUpdates == 3

Cpus == 0..(NCpus - 1)
AggValues == {1, 2}
AggKeys == {1, 2}

\* The globals of the script: a long, and the aggregate: a scalar or an
\* array of one long index.
LongDecl ==
  [name |-> "n", arity |-> 0, type |-> pe_long, index_types |-> <<>>,
   maxsize |-> 0]
StatDecl(arity) ==
  [name |-> "s", arity |-> arity, type |-> pe_stats,
   index_types |-> [i \in 1..arity |-> pe_long], maxsize |-> 0]

\* The locals of the probe that hold the value and the key.
ValReg == Reg(MAX_BPF_REG)
KeyReg == Reg(MAX_BPF_REG + 1)

\* emit_store(s, val) or emit_store(s[key], val) into the entry block of a
\* program, after translate_globals has planned the globals.
EmitStoreStats ==
  /\ pc = "idle"
  /\ \E arity \in {0, 1} :
       LET glob == NewGlobals @@ translate_globals(NewLayout, <<LongDecl, StatDecl(arity)>>)
           p == [NewProgram(target_user_bpfinterp) EXCEPT
                   !.blocks = <<EmptyBlock>>, !.nregs = 2]
           cx == emit_store_stats(
                   Cx(p, [NewUnparserFor(glob, 0) EXCEPT !.this_ins = 1]),
                   StatDecl(arity), KeyReg, ValReg)
       IN /\ After(cx, "run")
          /\ inp' = [kind |-> "stats", arity |-> arity]
          /\ mach' = [state |-> "cpus",
                      cpus |-> [c \in Cpus |-> NoMachine],
                      maps |-> NoEntries, present |-> {}]
          /\ drv' = [kind |-> "stats", i |-> 0, n |-> 1, this_block |-> NoBlock,
                     nstmts |-> 0, max |-> MaxUpdates,
                     count |-> [k \in AggKeys |-> 0],
                     sum |-> [k \in AggKeys |-> 0],
                     key |-> [c \in Cpus |-> 0], val |-> [c \in Cpus |-> 0],
                     overlapped |-> FALSE]
  /\ UNCHANGED <<requested, ctl, hist>>

\* The key under which the update of key k is kept: the slot's index of a
\* scalar aggregate, else the array key.
SlotKey(k) == IF inp.arity = 0 THEN u.glob.globals["s"].idx ELSE k

\* Where the value of a key lives on a CPU: every CPU has its own copy of a
\* per-CPU map, one copy serves all CPUs for the other map types.
CpuStride == 40000
PerCpu(map_id) ==
  u.glob.maps[map_id + 1].type
    \in {"BPF_MAP_TYPE_PERCPU_ARRAY", "BPF_MAP_TYPE_PERCPU_HASH"}
IsHash(map_id) ==
  u.glob.maps[map_id + 1].type
    \in {"BPF_MAP_TYPE_HASH", "BPF_MAP_TYPE_PERCPU_HASH"}
CopyAddr(map_id, key, c) ==
  MapAddr(map_id, key) + (IF PerCpu(map_id) THEN CpuStride * c ELSE 0)

Running(c) == mach.cpus[c].state = "run"
CpuInsns(c) == prog.blocks[mach.cpus[c].blk].insns
CpuAtInsn(c) == mach.cpus[c].i <= Len(CpuInsns(c))

\* A scalar aggregate is updated under one key.
UsedKeys == IF inp.arity = 0 THEN {1} ELSE AggKeys

\* The probe fires on an idle CPU with a value and, for an array, a key.
\* Updates on one CPU do not interleave: the CPU runs one probe at a time.
FireProbe ==
  /\ pc = "run" /\ drv.nstmts < drv.max
  /\ \E c \in Cpus, v \in AggValues, k \in AggKeys :
       /\ mach.cpus[c].state \in {"off"}
       /\ k \in UsedKeys
       /\ mach' = [mach EXCEPT !.cpus[c] =
                     StartMachine(prog, <<>>,
                                  (ValReg.v :> v) @@ (KeyReg.v :> k))]
       /\ drv' = [drv EXCEPT !.nstmts = @ + 1, !.key[c] = k, !.val[c] = v,
                    !.overlapped = @ \/ \E d \in Cpus : d # c /\ Running(d)]
  /\ UNCHANGED <<prog, u, pc, requested, inp, ctl, hist>>

\* A CPU runs the straight-line instructions up to the next call or jump;
\* a load through a pointer into a map reads the map.
CpuStraight ==
  /\ pc = "run"
  /\ \E c \in Cpus :
       /\ Running(c) /\ CpuAtInsn(c) /\ IsStraight(CpuInsns(c)[mach.cpus[c].i])
       /\ LET m == ExecRun([mach.cpus[c] EXCEPT !.mem = @ @@ mach.maps],
                           CpuInsns(c), mach.cpus[c].i)
          IN mach' = [mach EXCEPT !.cpus[c] =
                        [m EXCEPT !.mem = [a \in DOMAIN m.mem \ DOMAIN mach.maps
                                             |-> m.mem[a]]]]
  /\ UNCHANGED <<prog, u, pc, requested, inp, drv, ctl, hist>>

CpuJcond ==
  /\ pc = "run"
  /\ \E c \in Cpus :
       /\ Running(c) /\ CpuAtInsn(c) /\ CpuInsns(c)[mach.cpus[c].i].op = "jcond"
       /\ LET m == mach.cpus[c]
              i == CpuInsns(c)[m.i]
              b == prog.blocks[m.blk]
              to == IF CondHolds(i.aux, Val(m, i.a), Val(m, i.b))
                    THEN b.taken ELSE b.fallthru
          IN mach' = [mach EXCEPT !.cpus[c] =
                        IF to # NoBlock THEN [m EXCEPT !.blk = to, !.i = 1]
                        ELSE [m EXCEPT !.state = "end"]]
  /\ UNCHANGED <<prog, u, pc, requested, inp, drv, ctl, hist>>

CpuFallthru ==
  /\ pc = "run"
  /\ \E c \in Cpus :
       /\ Running(c) /\ ~CpuAtInsn(c)
       /\ LET m == mach.cpus[c]
              b == prog.blocks[m.blk]
          IN mach' = [mach EXCEPT !.cpus[c] =
                        IF b.fallthru # NoBlock
                        THEN [m EXCEPT !.blk = b.fallthru, !.i = 1]
                        ELSE [m EXCEPT !.state = "end"]]
  /\ UNCHANGED <<prog, u, pc, requested, inp, drv, ctl, hist>>

\* map_lookup_elem(map, key) on CPU c: the address of this CPU's copy of
\* the value, null for a key a hash map does not hold.
CpuLookup ==
  /\ pc = "run"
  /\ \E c \in Cpus :
       /\ Running(c) /\ CpuAtInsn(c)
       /\ CpuInsns(c)[mach.cpus[c].i].op = "call"
       /\ CpuInsns(c)[mach.cpus[c].i].aux = "map_lookup_elem"
       /\ LET m == mach.cpus[c]
              map_id == m.regs[BPF_REG_1]
              key == Load(m, m.regs[BPF_REG_2])
          IN mach' = [mach EXCEPT !.cpus[c] =
                        [m EXCEPT !.i = @ + 1,
                           !.calls = Append(@, "map_lookup_elem"),
                           !.regs[BPF_REG_0] =
                             IF IsHash(map_id) /\ <<map_id, key>> \notin mach.present
                             THEN 0 ELSE CopyAddr(map_id, key, c)]]
  /\ UNCHANGED <<prog, u, pc, requested, inp, drv, ctl, hist>>

\* map_update_elem(map, key, value, 0) on CPU c, in a map with room for the
\* key: this CPU's copy of the value is written; a key new to a hash map
\* reads as 0 on the other CPUs.
CpuUpdate ==
  /\ pc = "run"
  /\ \E c \in Cpus :
       /\ Running(c) /\ CpuAtInsn(c)
       /\ CpuInsns(c)[mach.cpus[c].i].op = "call"
       /\ CpuInsns(c)[mach.cpus[c].i].aux = "map_update_elem"
       /\ LET m == mach.cpus[c]
              map_id == m.regs[BPF_REG_1]
              key == Load(m, m.regs[BPF_REG_2])
          IN mach' = [mach EXCEPT
                        !.cpus[c] = [m EXCEPT !.i = @ + 1,
                                       !.calls = Append(@, "map_update_elem"),
                                       !.regs[BPF_REG_0] = 0],
                        !.maps = (CopyAddr(map_id, key, c)
                                    :> Load(m, m.regs[BPF_REG_3])) @@ @,
                        !.present = @ \cup {<<map_id, key>>}]
  /\ UNCHANGED <<prog, u, pc, requested, inp, drv, ctl, hist>>

\* The generated code has come to its end on a CPU: the update has been
\* executed.
ProbeReturns ==
  /\ pc = "run"
  /\ \E c \in Cpus :
       /\ mach.cpus[c].state = "end"
       /\ mach' = [mach EXCEPT !.cpus[c] = NoMachine]
       /\ drv' = [drv EXCEPT !.count[drv.key[c]] = @ + 1,
                             !.sum[drv.key[c]] = @ + drv.val[c]]
  /\ UNCHANGED <<prog, u, pc, requested, inp, ctl, hist>>

NextAgg ==
  \/ EmitStoreStats
  \/ FireProbe
  \/ CpuStraight
  \/ CpuJcond
  \/ CpuFallthru
  \/ CpuLookup
  \/ CpuUpdate
  \/ ProbeReturns

SpecAgg == InitProbe /\ [][NextAgg]_vars

\* The value of a stat field of the aggregate under key k, summed over the
\* copies of all CPUs.
StatMapOf(field) ==
  IF inp.arity = 0 THEN u.glob.scalar_stats[field]
  ELSE u.glob.array_stats["s"][field]
StatCopy(field, k, c) ==
  LET a == CopyAddr(StatMapOf(field), SlotKey(k), c)
  IN IF a \in DOMAIN mach.maps THEN mach.maps[a] ELSE 0
RECURSIVE StatTotal(_, _, _)
StatTotal(field, k, c) ==
  IF c \notin Cpus THEN 0
  ELSE StatCopy(field, k, c) + StatTotal(field, k, c + 1)

Quiescent == pc = "run" /\ \A c \in Cpus : mach.cpus[c].state = "off"

\* C13: probes that update an aggregate run on several CPUs at once, one
\* at a time on each CPU.  Whenever no update is under way, for every key
\* the counts of all CPUs add up to the number of updates executed and the
\* sums of all CPUs to the total of the values added.
C13_NoUpdateLost ==
  Quiescent =>
    \A k \in UsedKeys :
      /\ StatTotal("count", k, 0) = drv.count[k]
      /\ StatTotal("sum", k, 0) = drv.sum[k]

\* Updates of the same key have run on two CPUs at once, and each CPU has
\* counted its own.
C13_Witness ==
  /\ Quiescent /\ drv.overlapped
  /\ drv.count[1] = MaxUpdates
  /\ \A c \in Cpus : StatCopy("count", 1, c) >= 1

-----------------------------------------------------------------------------
(* Embedded assembly: labels and jumps                                     *)

\* asm_stmt, as far as the jumps go: a label, or an opcode that is an
\* unconditional jump (BPF_JA), a conditional jump, or a plain instruction.
\* parse_asm_opcode sets has_fallthrough for the conditional jumps only.
AsmLabel(l) ==
  [kind |-> "label", op |-> "", dest |-> l, jmp_target |-> "-",
   has_fallthrough |-> FALSE, fallthrough |-> ""]
AsmOpcode(op, l) ==
  [kind |-> "opcode", op |-> op, dest |-> "-", jmp_target |-> l,
   has_fallthrough |-> (op = "jcond"), fallthrough |-> ""]

\* BPF_CLASS(stmt.code) == BPF_JMP && BPF_OP(stmt.code) != BPF_CALL
AsmIsJump(stmt) == stmt.kind = "opcode" /\ stmt.op \in {"ja", "jcond"}

\* std::map<std::string, block *> label_map: operator[] of a label that was
\* never entered gives the null block.
AsmEntry == ";;entry"
FallthroughLabel(n) ==
  <<"fallthrough;;0", "fallthrough;;1", "fallthrough;;2", "fallthrough;;3">>[n + 1]
LabelBlock(label_map, l) ==
  IF l \in DOMAIN label_map THEN label_map[l] ELSE NoBlock
Bind(label_map, l, b) == (l :> b) @@ label_map

\* program::mk_jmp(ins, dest): the jump instruction, and the edge to dest,
\* which is the block's taken edge ("Taken (conditional or not) edge").
\* With a null dest the edge constructor registers itself at a null block:
\* the translator crashes, or the edge to nowhere is kept (null_edge).
mk_jmp(cx, dest, null_edge) ==
  Then([c1 \in {new_insn(cx, cx.u.this_ins,
                         Insn("ja", 0, NoVal, NoVal, NoVal, 0, ""))} |->
    IF dest = NoBlock /\ ~null_edge THEN [c1 EXCEPT !.u.crash = TRUE]
    ELSE set_taken(c1, c1.u.this_ins, dest)])

\* bpf_unparser::emit_asm_opcode, the three ways it ends: the unconditional
\* jump takes label_map[stmt.jmp_target] as it is; the conditional jump
\* throws when one of its two labels is not in label_map; any other opcode
\* is one new instruction.
emit_asm_opcode(cx, stmt, label_map, null_edge) ==
  IF stmt.op = "ja"
  THEN mk_jmp(cx, LabelBlock(label_map, stmt.jmp_target), null_edge)
  ELSE IF stmt.op = "jcond"
  THEN (IF stmt.jmp_target \notin DOMAIN label_map
           \/ stmt.fallthrough \notin DOMAIN label_map
        THEN throw(cx)
        ELSE mk_jcond(cx, "EQ", lookup_reg(BPF_REG_0), Imm(0),
                      label_map[stmt.jmp_target], label_map[stmt.fallthrough]))
  ELSE mk_mov(cx, lookup_reg(BPF_REG_0), Imm(0))

\* visit_embeddedcode, "build basic block table", for statement i: t is
\* the table so far (cx, stmts, label_map, after_label, after_jump as the
\* place of the statement, 0 for NULL, fallthrough_count).
AsmAfterJump(t, i) ==
  IF t.after_jump = 0 THEN t
  ELSE IF t.stmts[i].kind = "label"
  THEN [t EXCEPT !.stmts[t.after_jump].has_fallthrough = TRUE,
                 !.stmts[t.after_jump].fallthrough = t.stmts[i].dest]
  ELSE [t EXCEPT !.cx = set_block(new_block(t.cx), NextBlock(t.cx)),
                 !.label_map = Bind(@, FallthroughLabel(t.fallthrough_count),
                                    NextBlock(t.cx)),
                 !.fallthrough_count = @ + 1,
                 !.stmts[t.after_jump].has_fallthrough = TRUE,
                 !.stmts[t.after_jump].fallthrough =
                    FallthroughLabel(t.fallthrough_count)]

AsmTableStmt(t, i) ==
  Let([t1 \in {AsmAfterJump(t, i)} |->
    IF t.stmts[i].kind = "label" /\ t1.after_label
    THEN [t1 EXCEPT !.label_map = Bind(@, t.stmts[i].dest, t1.cx.u.this_ins),
                    !.after_jump = 0]
    ELSE IF t.stmts[i].kind = "label"
    THEN [t1 EXCEPT !.cx = set_block(new_block(t1.cx), NextBlock(t1.cx)),
                    !.label_map = Bind(@, t.stmts[i].dest, NextBlock(t1.cx)),
                    !.after_label = TRUE, !.after_jump = 0]
    ELSE IF t.stmts[i].has_fallthrough \/ AsmIsJump(t.stmts[i])
    THEN [t1 EXCEPT !.after_label = FALSE, !.after_jump = i]
    ELSE [t1 EXCEPT !.after_label = FALSE, !.after_jump = 0]])

RECURSIVE AsmTable(_, _)
AsmTable(t, i) ==
  IF i > Len(t.stmts) THEN t ELSE AsmTable(AsmTableStmt(t, i), i + 1)

\* visit_embeddedcode, "emit statements", for statement i of the table t:
\* e is the context and jumped_already.
AsmEmitStmt(t, e, i, null_edge) ==
  Let([c1 \in {IF t.stmts[i].kind = "label"
               THEN Then([c0 \in {IF e.jumped_already THEN e.cx
                                  ELSE emit_jmp(e.cx, LabelBlock(t.label_map,
                                                          t.stmts[i].dest))} |->
                          set_block(c0, LabelBlock(t.label_map, t.stmts[i].dest))])
               ELSE emit_asm_opcode(e.cx, t.stmts[i], t.label_map, null_edge)} |->
    IF Stopped(c1) THEN [cx |-> c1, jumped_already |-> FALSE]
    ELSE IF t.stmts[i].has_fallthrough
    THEN [cx |-> set_block(c1, LabelBlock(t.label_map, t.stmts[i].fallthrough)),
          jumped_already |-> TRUE]
    ELSE [cx |-> c1, jumped_already |-> FALSE]])

RECURSIVE AsmEmit(_, _, _, _)
AsmEmit(t, e, i, null_edge) ==
  IF i > Len(t.stmts) \/ Stopped(e.cx) THEN e.cx
  ELSE AsmEmit(t, AsmEmitStmt(t, e, i, null_edge), i + 1, null_edge)

\* bpf_unparser::visit_embeddedcode for the statements stmts: the table of
\* the labels' blocks is built, a jump as the last statement is refused,
\* then the statements are emitted from the entry block on.
visit_embeddedcode(cx, stmts, null_edge) ==
  Let([t \in {AsmTable([cx |-> cx, stmts |-> stmts,
                        label_map |-> (AsmEntry :> cx.u.this_ins),
                        after_label |-> TRUE, after_jump |-> 0,
                        fallthrough_count |-> 0], 1)} |->
    IF t.after_jump # 0 THEN throw(t.cx)
    ELSE AsmEmit(t, [cx |-> set_block(t.cx, cx.u.this_ins),
                     jumped_already |-> FALSE], 1, null_edge)])

-----------------------------------------------------------------------------
(* SpecCfg: a probe or a probe group whose body is made of embedded        *)
(* assembly with labels and jumps, next statements, try/catch and raises   *)

MaxAsmStmts == 2
AsmLabels == {"a", "b"}

AsmStmts ==
  {AsmLabel(l) : l \in AsmLabels}
    \cup {AsmOpcode(op, l) : op \in {"ja", "jcond"}, l \in AsmLabels}
    \cup {AsmOpcode("mov", "-")}
AsmPrograms == UNION {[1..n -> AsmStmts] : n \in 1..MaxAsmStmts}

\* The labels a statement list defines, and its unconditional jumps to a
\* label it does not define.
DefinedLabels(stmts) ==
  {stmts[i].dest : i \in {k \in 1..Len(stmts) : stmts[k].kind = "label"}}
UndefinedJumps(stmts) ==
  {i \in 1..Len(stmts) : /\ stmts[i].op = "ja"
                         /\ stmts[i].jmp_target \notin DefinedLabels(stmts)}

\* An embedded-code function body is visited.
VisitEmbeddedcode ==
  /\ CanVisit
  /\ \E stmts \in AsmPrograms, null_edge \in BOOLEAN :
       /\ (null_edge => UndefinedJumps(stmts) # {})
       /\ After(visit_embeddedcode(Cx(prog, u), stmts, null_edge), "body")
       /\ hist' = IF UndefinedJumps(stmts) # {}
                  THEN [hist EXCEPT !.thrown_by = "undefined label"]
                  ELSE hist
  /\ Visited
  /\ UNCHANGED <<requested, mach, inp, ctl>>

NextCfg ==
  \/ TranslateProbe
  \/ TranslateProbeV
  \/ NextProbeV
  \/ FinishTranslate
  \/ VisitEmbeddedcode
  \/ VisitNextStatement
  \/ VisitTryBlock
  \/ EndTryBody
  \/ EndCatchBody
  \/ EmbeddedJumpToCatch

SpecCfg == InitProbe /\ [][NextCfg]_vars

\* C14: every taken or fallthru edge that a block of the program has leads
\* to a block of the program's block list, none to a null block.
C14_EdgesTargetMembers ==
  /\ prog.null_edges = {}
  /\ \A b \in 1..Len(prog.blocks) :
       /\ prog.blocks[b].taken \in 0..Len(prog.blocks)
       /\ prog.blocks[b].fallthru \in 0..Len(prog.blocks)

\* A translated program in which a block ends in an unconditional jump of
\* the embedded assembly whose edge leads to the null block.
C14_NullEdgeKept ==
  /\ pc = "translated"
  /\ hist.thrown_by = "undefined label"
  /\ \E e \in prog.null_edges :
       /\ e[2] = "taken"
       /\ prog.blocks[e[1]].insns # <<>>
       /\ Back(prog.blocks[e[1]].insns).op = "ja"

-----------------------------------------------------------------------------
(* The object emitter: output_probe and output_interned_aggregates         *)

\* insn::is_jmp and insn::is_call; (code & 0xff) == (BPF_LD | BPF_IMM |
\* BPF_DW), the instructions that take two slots of the section.
is_jmp(j) == j.op \in {"ja", "jcond"}
is_call(j) == j.op = "call"
IsWide(j) == j.op \in {"ld_map", "ld_imm64"}

\* insn::id as program::generate leaves it: the place of the instruction in
\* the section, the blocks in the order of the block list.
WideBefore(insns, k) == Cardinality({i \in 1..(k - 1) : IsWide(insns[i])})
RECURSIVE SlotsBefore(_, _)
SlotsBefore(p, b) ==
  IF b = 1 THEN 0
  ELSE SlotsBefore(p, b - 1) + Len(p.blocks[b - 1].insns)
         + WideBefore(p.blocks[b - 1].insns, Len(p.blocks[b - 1].insns) + 1)
InsnId(p, b, k) == SlotsBefore(p, b) + (k - 1) + WideBefore(p.blocks[b].insns, k)

\* block::is_forwarder of a block without instructions: where its edge
\* leads, NoBlock when it has none.
is_forwarder(p, b) ==
  IF p.blocks[b].insns # <<>> THEN NoBlock
  ELSE IF p.blocks[b].taken # NoBlock THEN p.blocks[b].taken
  ELSE p.blocks[b].fallthru

\* output_probe, "while (target->first == NULL)": the first block with
\* instructions from target on; NoBlock when the chain ends in no block
\* (the assertion fails, or target is the null block).
RECURSIVE JumpTarget(_, _, _)
JumpTarget(p, target, fuel) ==
  IF target = NoBlock \/ fuel = 0 THEN NoBlock
  ELSE IF p.blocks[target].insns # <<>> THEN target
  ELSE JumpTarget(p, is_forwarder(p, target), fuel - 1)

\* "j->off = target->first->id - (j->id + 1)"
JumpOff(p, b, k) ==
  InsnId(p, JumpTarget(p, p.blocks[b].taken, Len(p.blocks)), 1)
    - (InsnId(p, b, k) + 1)

\* The faulty variant: the offset of every instruction is written, a zero
\* where the instruction is no jump.
output_probe_insn_all(p, b, k) ==
  [p.blocks[b].insns[k] EXCEPT
     !.off = IF is_jmp(p.blocks[b].insns[k]) THEN JumpOff(p, b, k) ELSE 0]

\* output_probe, first loop ("Count insns and relocations; drop in jump
\* offset"), what it leaves of instruction k of block b: a jump has its
\* displacement in off, a call has off 0, any other is as it was.
output_probe_insn(p, b, k) ==
  IF is_jmp(p.blocks[b].insns[k])
  THEN [p.blocks[b].insns[k] EXCEPT !.off = JumpOff(p, b, k)]
  ELSE IF is_call(p.blocks[b].insns[k])
  THEN [p.blocks[b].insns[k] EXCEPT !.off = 0]
  ELSE p.blocks[b].insns[k]

\* The emitter stops in the first loop when a jump has no target with
\* instructions.
output_probe_stops(p) ==
  \E b \in 1..Len(p.blocks) : \E k \in 1..Len(p.blocks[b].insns) :
    /\ is_jmp(p.blocks[b].insns[k])
    /\ JumpTarget(p, p.blocks[b].taken, Len(p.blocks)) = NoBlock

\* The program output_probe leaves behind.
output_probe_program(p) ==
  [p EXCEPT !.blocks =
     [b \in 1..Len(p.blocks) |->
        [p.blocks[b] EXCEPT !.insns =
           [k \in 1..Len(p.blocks[b].insns) |-> output_probe_insn(p, b, k)]]]]

\* output_statsmap: the agg_id and the map of each tracked field.
output_statsmap(agg_id, sm) ==
  <<agg_id>> \o [i \in 1..Len(stat_fields) |-> sm[stat_fields[i]]]

\* The array aggregates in the order of glob.aggregates.
RECURSIVE AggregateRecords(_, _)
AggregateRecords(glob, names) ==
  IF names = {} THEN <<>>
  ELSE Let([v \in {The(names)} |->
         <<output_statsmap(glob.aggregates[v], glob.array_stats[v])>>
           \o AggregateRecords(glob, names \ {v})])

\* output_interned_aggregates(eo, glob): no section when no aggregate is
\* used; else the section stapbpf_aggregates, the scalar aggregates first
\* (with 0 as their id).  The assertions fail when a tracked field or the
\* maps of an array aggregate are missing.  eo is the sections and the
\* records written; glob is handed back as the call leaves it.
output_interned_aggregates(eo, glob) ==
  IF glob.scalar_stats = NoEntries /\ glob.aggregates = NoEntries
  THEN [eo EXCEPT !.glob = glob]
  ELSE IF \/ \E v \in DOMAIN glob.aggregates : v \notin DOMAIN glob.array_stats
          \/ \E sm \in {glob.scalar_stats}
                    \cup {glob.array_stats[v] : v \in DOMAIN glob.array_stats} :
               sm # NoEntries /\ \E i \in 1..Len(stat_fields) :
                                    stat_fields[i] \notin DOMAIN sm
  THEN [eo EXCEPT !.glob = glob, !.crash = TRUE]
  ELSE [eo EXCEPT
          !.glob = glob,
          !.sections = Append(@, "stapbpf_aggregates"),
          !.aggregates =
             (IF glob.scalar_stats # NoEntries
              THEN <<output_statsmap(0, glob.scalar_stats)>> ELSE <<>>)
             \o AggregateRecords(glob, DOMAIN glob.aggregates)]

-----------------------------------------------------------------------------
(* SpecEmit: the globals are planned, a probe is translated and its        *)
(* program and the aggregates are written to the object                    *)

MaxEmitStmts == 2

\* The sessions' globals.
EmitDecls ==
  {<<>>, <<LongDecl>>, <<StatDecl(0)>>, <<StatDecl(1)>>, <<LongDecl, StatDecl(1)>>}

TranslateForEmit ==
  /\ pc = "idle"
  /\ \E t \in Targets, decls \in EmitDecls :
       /\ After(translate_probe_enter(NewProgram(t), NewGlobals, 0, 1), "body")
       /\ drv' = [kind |-> "emit", i |-> 0, n |-> 1, this_block |-> NoBlock,
                  nstmts |-> 0, max |-> MaxEmitStmts,
                  glob |-> translate_globals(NewLayout, decls),
                  before |-> translate_globals(NewLayout, decls),
                  sections |-> <<>>, aggregates |-> <<>>, crash |-> FALSE]
  /\ UNCHANGED <<requested, mach, inp, ctl, hist>>

\* output_probe(eo, prog, name, flags)
OutputProbe ==
  /\ pc = "translated"
  /\ prog' = output_probe_program(prog)
  /\ pc' = IF output_probe_stops(prog) THEN "crash" ELSE "code written"
  /\ drv' = [drv EXCEPT !.sections = output_probe(@, prog, "probe")]
  /\ hist' = [hist EXCEPT !.before = prog]
  /\ UNCHANGED <<u, requested, mach, inp, ctl>>

\* output_interned_aggregates(eo, glob)
OutputInternedAggregates ==
  /\ pc = "code written"
  /\ drv' = output_interned_aggregates(drv, drv.glob)
  /\ pc' = IF drv'.crash THEN "crash" ELSE "written"
  /\ UNCHANGED <<prog, u, requested, mach, inp, ctl, hist>>

NextEmit ==
  \/ TranslateForEmit
  \/ VisitSymbol
  \/ EmbeddedRegisterError
  \/ EmbeddedTerminate
  \/ VisitNextStatement
  \/ FinishTranslate
  \/ OutputProbe
  \/ OutputInternedAggregates

SpecEmit == InitProbe /\ [][NextEmit]_vars

Emitted == pc \in {"code written", "written"}

\* The instruction with its offset field left out.
SansOff(j) == [j EXCEPT !.off = 0]

\* C15 as claimed: after the emission no field of the program, the offset
\* fields of the instructions included, and no table of the globals
\* differs from what it was before.
C15_EmissionReadOnly ==
  Emitted => /\ prog = hist.before
             /\ drv.glob = drv.before

\* C15: the emission writes the offset field of the jumps (the
\* displacement to the first instruction of the target) and of the calls
\* (zero) and nothing else: the blocks, their edges, every other field of
\* every instruction, every other instruction, the registers, the stack
\* and the globals are after the emission what they were before.
C15_OnlyJumpAndCallOffsetsWritten ==
  Emitted =>
    /\ drv.glob = drv.before
    /\ [prog EXCEPT !.blocks = <<>>] = [hist.before EXCEPT !.blocks = <<>>]
    /\ Len(prog.blocks) = Len(hist.before.blocks)
    /\ \A b \in 1..Len(prog.blocks) :
         /\ prog.blocks[b].taken = hist.before.blocks[b].taken
         /\ prog.blocks[b].fallthru = hist.before.blocks[b].fallthru
         /\ Len(prog.blocks[b].insns) = Len(hist.before.blocks[b].insns)
         /\ \A k \in 1..Len(prog.blocks[b].insns) :
              IF is_jmp(hist.before.blocks[b].insns[k])
              THEN /\ SansOff(prog.blocks[b].insns[k])
                        = SansOff(hist.before.blocks[b].insns[k])
                   /\ prog.blocks[b].insns[k].off = JumpOff(hist.before, b, k)
              ELSE IF is_call(hist.before.blocks[b].insns[k])
              THEN /\ SansOff(prog.blocks[b].insns[k])
                        = SansOff(hist.before.blocks[b].insns[k])
                   /\ prog.blocks[b].insns[k].off = 0
              ELSE prog.blocks[b].insns[k] = hist.before.blocks[b].insns[k]

\* The object has been written, with the aggregates' section; a jump of
\* the program got a displacement, a call lost its count of arguments, and
\* a store kept its offset.
C15_Witness ==
  /\ pc = "written"
  /\ "stapbpf_aggregates" \in {drv.sections[i] : i \in 1..Len(drv.sections)}
  /\ \E b \in 1..Len(prog.blocks) : \E k \in 1..Len(prog.blocks[b].insns) :
       /\ is_jmp(prog.blocks[b].insns[k])
       /\ prog.blocks[b].insns[k].off > 0
       /\ hist.before.blocks[b].insns[k].off = 0
  /\ \E b \in 1..Len(prog.blocks) : \E k \in 1..Len(prog.blocks[b].insns) :
       /\ is_call(prog.blocks[b].insns[k])
       /\ hist.before.blocks[b].insns[k].off > 0
  /\ \E b \in 1..Len(prog.blocks) : \E k \in 1..Len(prog.blocks[b].insns) :
       /\ prog.blocks[b].insns[k].op = "st"
       /\ prog.blocks[b].insns[k].off # 0

-----------------------------------------------------------------------------
(* Conditions: emit_cond, emit_bool and the if statement                   *)

\* An expression of the script: a literal number, a local variable, a unary
\* or binary expression, a comparison, a logical or / and.
Expr(k, op, v, args) == [k |-> k, op |-> op, v |-> v, args |-> args]
Num(v) == Expr("number", "", v, <<>>)
Local(i) == Expr("local", "", i, <<>>)
Unary(op, e) == Expr("unary", op, 0, <<e>>)
Binary(op, l, r) == Expr("binary", op, 0, <<l, r>>)
Comparison(op, l, r) == Expr("comparison", op, 0, <<l, r>>)
LogicalOr(l, r) == Expr("or", "||", 0, <<l, r>>)
LogicalAnd(l, r) == Expr("and", "&&", 0, <<l, r>>)

\* visit_binary_expression: the opcode of each operator it handles, and
\* emit_cond: the condition of each comparison operator.
BinaryCode ==
  [x \in {"+", "-", "*", "&", "|", "^", "<<", ">>", ">>>", "/", "%"} |->
     CASE x = "+" -> "add" [] x = "-" -> "sub" [] x = "*" -> "mul"
       [] x = "&" -> "and" [] x = "|" -> "or" [] x = "^" -> "xor"
       [] x = "<<" -> "lsh" [] x = ">>" -> "arsh" [] x = ">>>" -> "rsh"
       [] x = "/" -> "div" [] x = "%" -> "mod"]
ComparisonCond ==
  [x \in {"==", "!=", "<", "<=", ">", ">="} |->
     CASE x = "==" -> "EQ" [] x = "!=" -> "NE" [] x = "<" -> "LT"
       [] x = "<=" -> "LE" [] x = ">" -> "GT" [] x = ">=" -> "GE"]

RECURSIVE emit_cond(_, _, _, _)
RECURSIVE visit_expression(_, _)

\* bpf_unparser::emit_bool: 1 in a new register, 0 on the false path.
emit_bool(cx, e) ==
  LET else_block == NextBlock(cx)
      join_block == NextBlock(cx) + 1
      r == Reg(NextReg(cx))
  IN Then([c1 \in {mk_mov(new_reg(new_block(new_block(cx))), r, Imm(1))} |->
     Then([c2 \in {emit_cond(c1, e, join_block, else_block)} |->
     Then([c3 \in {mk_mov(set_block(c2, else_block), r, Imm(0))} |->
     Then([c4 \in {emit_jmp(c3, join_block)} |->
     [set_block(c4, join_block) EXCEPT !.u.result = r]])])])])

\* bpf_unparser::visit_binary_expression: the left operand is copied to a
\* new register, the result is computed into another new register.
visit_binary_expression(cx, e) ==
  IF e.op \notin DOMAIN BinaryCode THEN throw(cx)
  ELSE
    Then([c1 \in {visit_expression(new_reg(cx), e.args[1])} |->
    Then([c2 \in {mk_mov(c1, Reg(NextReg(cx)), c1.u.result)} |->
    Then([c3 \in {visit_expression(c2, e.args[2])} |->
    Then([c4 \in {mk_binary(new_reg(c3), BinaryCode[e.op], Reg(NextReg(c3)),
                            Reg(NextReg(cx)), c3.u.result)} |->
    [c4 EXCEPT !.u.result = Reg(NextReg(c3))]])])])])

\* bpf_unparser::emit_expr(e): e->visit(this) for the expressions above.
\* visit_literal_number; visit_symbol of a local; visit_unary_expression
\* ("!" only); visit_comparison, visit_logical_or_expr, visit_logical_and_expr.
visit_expression(cx, e) ==
  IF e.k = "number" THEN [cx EXCEPT !.u.result = Imm(e.v)]
  ELSE IF e.k = "local" THEN [cx EXCEPT !.u.result = Reg(MAX_BPF_REG + e.v)]
  ELSE IF e.k = "binary" THEN visit_binary_expression(cx, e)
  ELSE IF e.k = "unary" /\ e.op # "!" THEN throw(cx)
  ELSE emit_bool(cx, e)

\* emit_cond, "What is left must generate a comparison + conditional
\* branch", for the values s0 and s1 of the operands.
CondBranch(cx, cond, s0, s1, t_dest, f_dest) ==
  Then([c1 \in {mk_jcond(cx, cond, s0, s1, t_dest, f_dest)} |-> clear_block(c1)])

\* emit_cond, "Fall back to E != 0"
CondNotZero(cx, e, t_dest, f_dest) ==
  Then([c1 \in {visit_expression(cx, e)} |->
        CondBranch(c1, "NE", c1.u.result, Imm(0), t_dest, f_dest)])

\* emit_cond of a comparison or of "&": the two operands, then the branch.
CondOperands(cx, e, cond, t_dest, f_dest) ==
  Then([c1 \in {visit_expression(cx, e.args[1])} |->
  Then([c2 \in {visit_expression(c1, e.args[2])} |->
    IF cond = "" THEN throw(c2)
    ELSE CondBranch(c2, cond, c1.u.result, c2.u.result, t_dest, f_dest)])])

\* emit_cond, "Look for and handle logical operators first"
CondLogical(cx, e, t_dest, f_dest) ==
  IF e.k = "or"
  THEN Then([c1 \in {emit_cond(new_block(cx), e.args[1], t_dest, NextBlock(cx))} |->
            emit_cond(set_block(c1, NextBlock(cx)), e.args[2], t_dest, f_dest)])
  ELSE IF e.k = "and"
  THEN Then([c1 \in {emit_cond(new_block(cx), e.args[1], NextBlock(cx), f_dest)} |->
            emit_cond(set_block(c1, NextBlock(cx)), e.args[2], t_dest, f_dest)])
  ELSE emit_cond(cx, e.args[1], f_dest, t_dest)

IsLogical(e) == e.k \in {"or", "and"} \/ (e.k = "unary" /\ e.op = "!")

\* The faulty variant: "&" is not looked for, it is computed as any other
\* value and compared with zero.
emit_cond_without_test(cx, e, t_dest, f_dest) ==
  IF IsLogical(e) THEN CondLogical(cx, e, t_dest, f_dest)
  ELSE IF e.k = "comparison"
  THEN CondOperands(cx, e, IF e.op \in DOMAIN ComparisonCond
                           THEN ComparisonCond[e.op] ELSE "", t_dest, f_dest)
  ELSE CondNotZero(cx, e, t_dest, f_dest)

\* bpf_unparser::emit_cond(e, t_dest, f_dest)
emit_cond(cx, e, t_dest, f_dest) ==
  IF IsLogical(e) THEN CondLogical(cx, e, t_dest, f_dest)
  ELSE IF e.k = "comparison"
  THEN CondOperands(cx, e, IF e.op \in DOMAIN ComparisonCond
                           THEN ComparisonCond[e.op] ELSE "", t_dest, f_dest)
  ELSE IF e.k = "binary" /\ e.op = "&"
  THEN CondOperands(cx, e, "TEST", t_dest, f_dest)
  ELSE CondNotZero(cx, e, t_dest, f_dest)

\* bpf_unparser::visit_if_statement up to the then block.
visit_if_statement_enter(cx, condition, has_else) ==
  LET then_block == NextBlock(cx)
      join_block == NextBlock(cx) + 1
      else_block == NextBlock(cx) + 2
      c1 == IF has_else THEN new_block(new_block(new_block(cx)))
            ELSE new_block(new_block(cx))
  IN Then([c2 \in {emit_cond(c1, condition, then_block,
                             IF has_else THEN else_block ELSE join_block)} |->
          set_block(c2, then_block)])

\* visit_if_statement after the then block or the else block: to block
\* next, the else block or the join block.
visit_if_statement_next(cx, join_block, next) ==
  set_block(IF in_block(cx) THEN emit_jmp(cx, join_block) ELSE cx, next)

-----------------------------------------------------------------------------
(* SpecIf: a probe whose body is made of if statements, with conditions of *)
(* every kind, next statements and raised errors                           *)

MaxIfStmts == 2

Leaves == {Num(2), Local(0), Local(1)}
BitExprs == {Binary(op, l, r) : op \in {"&", "|"}, l \in Leaves, r \in {Local(1)}}
Conditions ==
  Leaves \cup BitExprs
    \cup {Binary("&", l, r) : l \in BitExprs, r \in {Num(2)}}
    \cup {Comparison(op, l, Num(2)) : op \in {"==", "<"},
                                      l \in {Local(0), Binary("&", Local(0), Local(1))}}
    \cup {Unary("!", Binary("&", Local(0), Local(1))),
          LogicalOr(Binary("&", Local(0), Num(2)), Local(1)),
          LogicalAnd(Local(0), Binary("&", Local(1), Num(2)))}

TranslateIf ==
  /\ pc = "idle"
  /\ After(translate_probe_enter(NewProgram(target_user_bpfinterp),
                                 NewGlobals, 0, 2), "body")
  /\ drv' = [kind |-> "if", i |-> 0, n |-> 1, this_block |-> NoBlock,
             nstmts |-> 0, max |-> MaxIfStmts, conds |-> <<>>]
  /\ UNCHANGED <<requested, mach, inp, ctl, hist>>

\* if (condition) ... [else ...]: visit_if_statement is entered.
VisitIfStatement ==
  /\ CanVisit
  /\ \E condition \in Conditions, has_else \in BOOLEAN :
       /\ After(visit_if_statement_enter(Cx(prog, u), condition, has_else), "body")
       /\ ctl' = Append(ctl, [kind |-> "then",
                              join_block |-> Len(prog.blocks) + 2,
                              else_block |-> IF has_else THEN Len(prog.blocks) + 3
                                             ELSE NoBlock])
       /\ drv' = [drv EXCEPT !.nstmts = @ + 1, !.conds = Append(@, condition)]
  /\ UNCHANGED <<requested, mach, inp, hist>>

\* The then block has been visited.
EndThenBlock ==
  /\ pc = "body" /\ ctl # <<>> /\ Back(ctl).kind = "then"
  /\ After(visit_if_statement_next(Cx(prog, u), Back(ctl).join_block,
             IF Back(ctl).else_block # NoBlock THEN Back(ctl).else_block
             ELSE Back(ctl).join_block), "body")
  /\ ctl' = IF Back(ctl).else_block # NoBlock
            THEN [ctl EXCEPT ![Len(ctl)].kind = "else"]
            ELSE PopBack(ctl)
  /\ UNCHANGED <<requested, mach, inp, drv, hist>>

\* The else block has been visited: visit_if_statement returns.
EndElseBlock ==
  /\ pc = "body" /\ ctl # <<>> /\ Back(ctl).kind = "else"
  /\ After(visit_if_statement_next(Cx(prog, u), Back(ctl).join_block,
                                   Back(ctl).join_block), "body")
  /\ ctl' = PopBack(ctl)
  /\ UNCHANGED <<requested, mach, inp, drv, hist>>

NextIf ==
  \/ TranslateIf
  \/ VisitIfStatement
  \/ EndThenBlock
  \/ EndElseBlock
  \/ VisitNextStatement
  \/ EmbeddedRegisterError
  \/ FinishTranslate

SpecIf == InitProbe /\ [][NextIf]_vars

\* What the lowering of a condition added to the program: the instructions
\* of all the blocks, and the registers.
AllInsns(p) ==
  UNION {{<<b, k>> : k \in 1..Len(p.blocks[b].insns)} : b \in 1..Len(p.blocks)}
NInsns(p) == Cardinality(AllInsns(p))
NOps(p, op) == Cardinality({x \in AllInsns(p) : p.blocks[x[1]].insns[x[2]].op = op})

\* The step lowers an if statement whose condition is e.
LowersCondition(e) ==
  /\ pc = "body" /\ pc' = "body"
  /\ drv.kind = "if" /\ drv'.conds = Append(drv.conds, e)

IsBitTest(e) == e.k = "binary" /\ e.op = "&"

\* C16: an if statement whose condition is "&" at the top adds to the
\* current block the code of the two operands and then one conditional
\* branch of the kind TEST on their two values; it makes no register for
\* the result and no AND instruction beyond those of the operands, and the
\* program has fewer instructions than with the AND computed and compared
\* with zero.
C16_BitTestBranch ==
  [][\A e \in Conditions :
       IsBitTest(e) /\ LowersCondition(e) =>
         LET left == visit_expression(Cx(prog, u), e.args[1])
             right == visit_expression(left, e.args[2])
             b == u.this_ins
         IN /\ prog'.blocks[b].insns =
                 Append(right.p.blocks[b].insns,
                        Insn("jcond", 0, NoVal, left.u.result, right.u.result,
                             0, "TEST"))
            /\ prog'.blocks[b].taken = Len(prog.blocks) + 1
            /\ prog'.blocks[b].fallthru \in
                 {Len(prog.blocks) + 2, Len(prog.blocks) + 3}
            /\ prog'.nregs = right.p.nregs
            /\ NInsns(prog') = NInsns(right.p) + 1
            /\ NOps(prog', "and") = NOps(right.p, "and")
            /\ NInsns(prog') <
                 NInsns(emit_cond_without_test(
                          new_block(new_block(Cx(prog, u))), e,
                          Len(prog.blocks) + 1, Len(prog.blocks) + 2).p)]_vars

\* A translated probe with two if statements, the first on "&" of two
\* locals, the second on a local: a block ends in the TEST branch on the
\* two locals, another in the branch on not equal zero.
C16_Witness ==
  /\ pc = "translated" /\ drv.kind = "if" /\ Len(drv.conds) = 2
  /\ drv.conds[1] = Binary("&", Local(0), Local(1))
  /\ drv.conds[2] = Local(1)
  /\ \E b \in 1..Len(prog.blocks) :
       /\ prog.blocks[b].insns # <<>>
       /\ Back(prog.blocks[b].insns) =
            Insn("jcond", 0, NoVal, Reg(MAX_BPF_REG), Reg(MAX_BPF_REG + 1), 0, "TEST")
  /\ \E b \in 1..Len(prog.blocks) :
       /\ prog.blocks[b].insns # <<>>
       /\ Back(prog.blocks[b].insns).aux = "NE"
  /\ NOps(prog, "and") = 0

-----------------------------------------------------------------------------
(* intern_stats_map and deintern_stats_map                                 *)

\* std::map<stat_field, map_idx>::find(sf) != end()
HasField(sm, sf) == sf \in DOMAIN sm

\* The faulty variant: the maps are pushed in the order of the fields in
\* sm (a std::map, ordered by the field's name), not of the field list.
FieldsByName == <<"count", "shift", "sum">>
intern_stats_map_by_name(fields, sm) ==
  IF \E i \in 1..Len(fields) : ~HasField(sm, fields[i]) THEN <<>>
  ELSE Let([named \in {SelectSeq(FieldsByName, LAMBDA sf : HasField(sm, sf))} |->
         [i \in 1..Len(named) |-> sm[named[i]]]])

\* globals::intern_stats_map(sm), the field list being fields: the map of
\* each field, in the order of the list.  The assertion fails when sm has
\* no entry for a field (intern_stats_map_fails), and nothing is returned.
intern_stats_map_fails(fields, sm) ==
  \E i \in 1..Len(fields) : ~HasField(sm, fields[i])
intern_stats_map(fields, sm) ==
  IF intern_stats_map_fails(fields, sm) THEN <<>>
  ELSE [i \in 1..Len(fields) |-> sm[fields[i]]]

\* globals::deintern_stats_map(ism): field i of the list gets ism[i], for
\* as many fields as both have.
MinOf(a, b) == IF a < b THEN a ELSE b
deintern_stats_map(fields, ism) ==
  [sf \in {fields[i] : i \in 1..MinOf(Len(ism), Len(fields))} |->
     ism[CHOOSE i \in 1..MinOf(Len(ism), Len(fields)) :
           /\ fields[i] = sf
           /\ \A j \in (i + 1)..MinOf(Len(ism), Len(fields)) : fields[j] # sf]]

-----------------------------------------------------------------------------
(* SpecIntern: a map-set is interned for the object file and de-interned   *)
(* again, for each field list and each association of fields to maps       *)

MaxMapId == 2

StatFieldNames == {"count", "sum", "shift"}
FieldLists ==
  {fl \in UNION {[1..n -> StatFieldNames] : n \in 1..Cardinality(StatFieldNames)} :
     \A i, j \in 1..Len(fl) : i # j => fl[i] # fl[j]}
\* The map-sets over the fields of a list, complete or not.
StatsMaps(fields) ==
  UNION {[D -> 0..MaxMapId] : D \in SUBSET {fields[i] : i \in 1..Len(fields)}}

InternStatsMap ==
  /\ pc = "idle"
  /\ \E fields \in FieldLists : \E sm \in StatsMaps(fields) :
       /\ inp' = [kind |-> "stats", fields |-> fields, sm |-> sm,
                  ism |-> intern_stats_map(fields, sm), back |-> NoEntries]
       /\ pc' = IF intern_stats_map_fails(fields, sm) THEN "crash"
                ELSE "interned"
  /\ UNCHANGED <<prog, u, requested, mach, drv, ctl, hist>>

DeinternStatsMap ==
  /\ pc = "interned"
  /\ inp' = [inp EXCEPT !.back = deintern_stats_map(inp.fields, inp.ism)]
  /\ pc' = "deinterned"
  /\ UNCHANGED <<prog, u, requested, mach, drv, ctl, hist>>

NextIntern == InternStatsMap \/ DeinternStatsMap

SpecIntern == InitProbe /\ [][NextIntern]_vars

\* C17: whatever the order of the field list, a map-set with an entry for
\* each field of the list is interned without a failed assertion, and
\* de-interning the result gives the map-set back.
C17_InternRoundTrip ==
  /\ pc = "crash" => \E i \in 1..Len(inp.fields) : ~HasField(inp.sm, inp.fields[i])
  /\ pc = "interned" => Len(inp.ism) = Len(inp.fields)
  /\ pc = "deinterned" => inp.back = inp.sm

\* The round trip of a map-set whose three fields, listed against the
\* order of their names, have three different maps.
C17_Witness ==
  /\ pc = "deinterned"
  /\ inp.fields = <<"sum", "count", "shift">>
  /\ inp.ism = <<2, 0, 1>>
  /\ inp.back = [sf \in StatFieldNames |->
                   IF sf = "sum" THEN 2 ELSE IF sf = "count" THEN 0 ELSE 1]

-----------------------------------------------------------------------------
(* SpecPlan: the translation pass is run again and again for the same      *)
(* session, and plans the storage of the same globals each time            *)

MaxRuns == 3
MaxGlobals == 3

\* The globals a session declares: a long, a string, an aggregate, an array
\* of long over a string and a long, an array of aggregates over a long.
Declarations ==
  {[name |-> "n", arity |-> 0, type |-> pe_long, index_types |-> <<>>,
    maxsize |-> 0],
   [name |-> "t", arity |-> 0, type |-> pe_string, index_types |-> <<>>,
    maxsize |-> 0],
   [name |-> "s", arity |-> 0, type |-> pe_stats, index_types |-> <<>>,
    maxsize |-> 0],
   [name |-> "a", arity |-> 2, type |-> pe_long,
    index_types |-> <<pe_string, pe_long>>, maxsize |-> 5],
   [name |-> "sa", arity |-> 1, type |-> pe_stats, index_types |-> <<pe_long>>,
    maxsize |-> 0]}
\* s.globals: each variable once, in the order of the session.
DeclLists ==
  {dl \in UNION {[1..n -> Declarations] : n \in 0..MaxGlobals} :
     \A i, j \in 1..Len(dl) : i # j => dl[i] # dl[j]}

\* The faulty variant: the pass plans into the Globals the pass before
\* left behind.
PassGlobals_kept(previous) == previous

\* translate_bpf_pass, "globals glob;": the Globals of a pass is a new
\* object, whatever the pass before it planned.
PassGlobals(previous) == NewLayout

\* translate_bpf_pass up to translate_globals(glob, s), for the first time
\* (the globals of the session are chosen) or once more.
TranslateGlobalsPass ==
  /\ pc \in {"idle", "planned"}
  /\ \E decls \in DeclLists :
       /\ pc = "planned" => decls = drv.decls /\ Len(drv.layouts) < MaxRuns
       /\ drv' = [kind |-> "plan", decls |-> decls,
                  layouts |->
                    IF pc = "idle"
                    THEN <<translate_globals(PassGlobals(NewLayout), decls)>>
                    ELSE Append(drv.layouts,
                           translate_globals(PassGlobals(Back(drv.layouts)),
                                             decls))]
  /\ pc' = "planned"
  /\ UNCHANGED <<prog, u, requested, mach, inp, ctl, hist>>

NextPlan == TranslateGlobalsPass

SpecPlan == InitProbe /\ [][NextPlan]_vars

-----------------------------------------------------------------------------
(* SpecMsg: a probe whose body is made of try/catch constructs and raises  *)
(* with two different messages; what is pushed on catch_msg and what the   *)
(* handlers take from it is written down                                   *)

MaxMsgStmts == 3

OtherMsg == Str(<<89>>)
ErrMsgs == {ErrMsg, OtherMsg}

TranslateMsg ==
  /\ pc = "idle"
  /\ After(translate_probe_enter(NewProgram(target_user_bpfinterp),
                                 NewGlobals, 0, 1), "body")
  /\ drv' = [kind |-> "msg", i |-> 0, n |-> 1, this_block |-> NoBlock,
             nstmts |-> 0, max |-> MaxMsgStmts,
             raises |-> {}, done |-> {}, popped_empty |-> FALSE]
  /\ UNCHANGED <<requested, mach, inp, ctl, hist>>

\* try { ... }: visit_try_block is entered; the depth of catch_msg is noted.
TryEnter ==
  /\ CanVisit
  /\ After(visit_try_block_enter(Cx(prog, u)), "body")
  /\ ctl' = Append(ctl, [kind |-> "try", catch_block |-> Len(prog.blocks) + 1,
                         join_block |-> Len(prog.blocks) + 2,
                         depth |-> Len(u.catch_msg), with_var |-> FALSE])
  /\ Visited
  /\ UNCHANGED <<requested, mach, inp, hist>>

\* The protected body has been visited; the handler begins, with or
\* without a catch variable.
TryCatch ==
  /\ pc = "body" /\ ctl # <<>> /\ Back(ctl).kind = "try"
  /\ \E with_var \in BOOLEAN, garbage \in BOOLEAN :
       /\ (garbage => with_var /\ u.catch_msg = <<>>)
       /\ After(visit_try_block_catch(Cx(prog, u), Back(ctl).catch_block,
                                      Back(ctl).join_block,
                                      IF with_var THEN CatchVar ELSE NoVal,
                                      garbage),
                "body")
       /\ ctl' = [ctl EXCEPT ![Len(ctl)].kind = "catch",
                             ![Len(ctl)].with_var = with_var]
       /\ drv' = [drv EXCEPT !.popped_empty =
                               @ \/ (with_var /\ u.catch_msg = <<>>)]
  /\ UNCHANGED <<requested, mach, inp, hist>>

\* The handler has been visited: visit_try_block returns.
TryLeave ==
  /\ pc = "body" /\ ctl # <<>> /\ Back(ctl).kind = "catch"
  /\ After(visit_try_block_leave(Cx(prog, u), Back(ctl).join_block), "body")
  /\ ctl' = PopBack(ctl)
  /\ drv' = [drv EXCEPT !.done = @ \cup
               {[catch_block |-> Back(ctl).catch_block,
                 with_var |-> Back(ctl).with_var,
                 before |-> Back(ctl).depth,
                 after |-> Len(u.catch_msg)]}]
  /\ UNCHANGED <<requested, mach, inp, hist>>

\* Embedded code: jump_to_catch, $msg, for one of the two messages.
Raise ==
  /\ CanVisit
  /\ \E msg \in ErrMsgs :
       /\ After(jump_to_catch(Cx(prog, u), msg), "body")
       /\ drv' = [drv EXCEPT
                    !.nstmts = @ + 1,
                    !.raises = @ \cup
                       {[from |-> u.this_ins,
                         to |-> IF u.catch_jump # <<>> THEN Back(u.catch_jump)
                                ELSE Len(prog.blocks) + 1,
                         msg |-> msg]}]
  /\ UNCHANGED <<requested, mach, inp, ctl, hist>>

NextMsg ==
  \/ TranslateMsg
  \/ TryEnter
  \/ TryCatch
  \/ TryLeave
  \/ Raise
  \/ FinishTranslate

SpecMsg == InitProbe /\ [][NextMsg]_vars

\* C19: no handler pops from an empty catch_msg, and after a complete
\* try/catch construct catch_msg is as deep as it was before the construct.
C19_MessageStackDiscipline ==
  drv.kind = "msg" =>
    /\ ~drv.popped_empty
    /\ \A d \in drv.done : d.after = d.before

\* A translated probe with a try/catch without a catch variable whose body
\* raised once: the message is still on catch_msg.
C19_MessageLeftOnStack ==
  /\ pc = "translated" /\ drv.kind = "msg"
  /\ ~drv.popped_empty
  /\ drv.done # {}
  /\ \A d \in drv.done : ~d.with_var /\ d.before = 0 /\ d.after = 1
  /\ Cardinality(drv.raises) = 1
  /\ u.catch_msg = <<ErrMsg>>

\* The blocks that can be entered when the program runs.
Reachable == ReachableAvoiding(prog, {})

\* C20: a handler with a catch variable begins by moving into the variable
\* the message of the raise that jumps to it, for every raise that can be
\* executed and jumps to it.
C20_CaughtMessageIsRaised ==
  drv.kind = "msg" =>
    \A d \in drv.done : \A r \in drv.raises :
      (d.with_var /\ r.to = d.catch_block /\ r.from \in Reachable) =>
        /\ prog.blocks[d.catch_block].insns # <<>>
        /\ prog.blocks[d.catch_block].insns[1].op = "mov"
        /\ prog.blocks[d.catch_block].insns[1].d = CatchVar
        /\ prog.blocks[d.catch_block].insns[1].a = r.msg

\* A translated probe whose try body raised X and then, in code that is
\* never entered, Y: the handler moves Y into the catch variable, and the
\* only raise that can be executed passes X.
C20_OtherMessageCaught ==
  /\ pc = "translated" /\ drv.kind = "msg"
  /\ \E d \in drv.done :
       /\ d.with_var
       /\ prog.blocks[d.catch_block].insns[1] =
            Insn("mov", 8, CatchVar, OtherMsg, NoVal, 0, "")
       /\ \A r \in drv.raises :
            (r.to = d.catch_block /\ r.from \in Reachable) => r.msg = ErrMsg
       /\ \E r \in drv.raises :
            r.to = d.catch_block /\ r.from \in Reachable

-----------------------------------------------------------------------------
(* SpecEpilogue: a probe whose body registers errors, terminates or leaves  *)
(* with next is translated and run once against an internal map holding a  *)
(* given error count; the notifications of the epilogue and the count in   *)
(* the map are observed                                                    *)

EpilogueCounts == {0, 1, 2}

\* The translated probe is loaded and entered with the exit flag ef and the
\* error count ec in the map of internal globals.
RunEpilogue ==
  /\ pc = "translated"
  /\ \E ef \in ExitFlags, ec \in EpilogueCounts :
       /\ mach' = StartMachine(prog,
                    (MapAddr(internal_map_idx, EXIT) :> ef)
                    @@ (MapAddr(internal_map_idx, ERRORS) :> ec),
                    (BPF_REG_1 :> CtxBase))
       /\ inp' = [kind |-> "errors", ef |-> ef, ec |-> ec]
  /\ pc' = "run"
  /\ UNCHANGED <<prog, u, requested, drv, ctl, hist>>

NextEpilogue ==
  \/ TranslateProbe
  \/ FinishTranslate
  \/ EmbeddedRegisterError
  \/ EmbeddedTerminate
  \/ VisitNextStatement
  \/ RunEpilogue
  \/ ExecStraight
  \/ ExecJcond
  \/ ExecFallthru
  \/ ExecCall
  \/ ExecExit

SpecEpilogue == InitProbe /\ [][NextEpilogue]_vars

\* The notifications only the epilogue sends, in the order sent; the error
\* count in the map; the error flag of this invocation.
EpilogueSent ==
  SelectSeq(mach.sent, LAMBDA s : s.tag \in {STP_PRINT_ERROR_MSG, STP_ERROR})
EpilogueTags == [k \in 1..Len(EpilogueSent) |-> EpilogueSent[k].tag]
ErrorCount == Load(mach, MapAddr(internal_map_idx, ERRORS))
ErrorFlag == mach.regs[u.error_status.v]
Updated == \E k \in 1..Len(mach.calls) : mach.calls[k] = "map_update_elem"
Invoked == pc = "run" /\ mach.state \in {"run", "exit"}
AtExit == pc = "run" /\ mach.state = "exit"
HardErrorDue == inp.ec + 1 > u.MAXERRORS
MessageFirst == EpilogueTags # <<>> /\ EpilogueTags[1] = STP_PRINT_ERROR_MSG

\* C21 as claimed: with the flag clear the epilogue sends nothing and leaves
\* the count alone; with the flag set the error message is sent, then the
\* count is incremented by one, then the hard error is sent if and only if
\* the new count is above MAXERRORS, all before the exit instruction.
C21_EpilogueProtocol ==
  /\ Invoked =>
       /\ (ErrorCount # inp.ec => MessageFirst)
       /\ (Len(EpilogueTags) > 1 => ErrorCount = inp.ec + 1)
  /\ AtExit =>
       IF ErrorFlag = 0
       THEN EpilogueTags = <<>> /\ ErrorCount = inp.ec
       ELSE /\ ErrorCount = inp.ec + 1
            /\ EpilogueTags = IF HardErrorDue
                              THEN <<STP_PRINT_ERROR_MSG, STP_ERROR>>
                              ELSE <<STP_PRINT_ERROR_MSG>>

\* What a step of the generated program may do to the count: nothing, or,
\* in a map_update_elem that succeeds, raise it by one.
CountStep ==
  (pc = "run" /\ pc' = "run" /\ mach.state = "run") =>
    \/ ErrorCount' = ErrorCount
    \/ /\ ErrorCount' = ErrorCount + 1
       /\ CurInsns[mach.i].op = "call"
       /\ CurInsns[mach.i].aux = "map_update_elem"
       /\ mach'.regs[BPF_REG_0] = 0

\* C21 as the code has it: the increment and the hard error depend on the
\* helpers.  With the flag clear nothing is sent and the count is left
\* alone.  With the flag set the error message is sent first; when the
\* lookup of the count yields no entry nothing else happens; otherwise the
\* count plus one is handed to map_update_elem (the count in the map is one
\* higher when the update succeeds, unchanged when it fails) and the hard
\* error is sent afterwards if and only if the count plus one is above
\* MAXERRORS.
C21_EpilogueWithHelpers ==
  /\ [](Invoked =>
         /\ (ErrorCount # inp.ec => ErrorCount = inp.ec + 1 /\ MessageFirst)
         /\ (Len(EpilogueTags) > 1 => Updated))
  /\ [](AtExit =>
         IF ErrorFlag = 0
         THEN EpilogueTags = <<>> /\ ErrorCount = inp.ec /\ ~Updated
         ELSE IF ~Updated
         THEN EpilogueTags = <<STP_PRINT_ERROR_MSG>> /\ ErrorCount = inp.ec
         ELSE EpilogueTags = IF HardErrorDue
                             THEN <<STP_PRINT_ERROR_MSG, STP_ERROR>>
                             ELSE <<STP_PRINT_ERROR_MSG>>)
  /\ [][CountStep]_vars

\* An invocation that raised an error reaches the exit with the count
\* raised and the hard error sent.
C21_Witness ==
  /\ AtExit /\ ErrorFlag = 1 /\ ErrorCount = inp.ec + 1
  /\ EpilogueTags = <<STP_PRINT_ERROR_MSG, STP_ERROR>>

-----------------------------------------------------------------------------
(* SpecErrors: a kernel probe that may register an error is translated and *)
(* then fires on several CPUs at once; all invocations share the map of    *)
(* internal globals, whose two keys the loader has entered                 *)

MaxFires == 4

\* translate_globals for a script without globals, then translate_probe up
\* to the body of the probe.
TranslateErrorProbe ==
  /\ pc = "idle"
  /\ \E me \in MAXERRORS_values :
       LET glob == NewGlobals @@ translate_globals(NewLayout, <<>>)
           cx == translate_probe_enter(NewProgram(target_kernel_bpf), glob, me, 1)
       IN /\ After(cx, "body")
          /\ hist' = [hist EXCEPT !.bodies = {cx.u.this_ins}]
  /\ drv' = [NoDriver EXCEPT !.kind = "probe", !.n = 1, !.max = 1]
  /\ UNCHANGED <<requested, mach, inp, ctl>>

\* The program is loaded: the exit flag and the error count are 0, no
\* probe has fired.  hard: a hard error has been notified; late[c]: the
\* invocation on CPU c began after that.
LoadProgram ==
  /\ pc = "translated"
  /\ pc' = "run"
  /\ mach' = [state |-> "cpus",
              cpus |-> [c \in Cpus |-> NoMachine],
              maps |-> (MapAddr(internal_map_idx, EXIT) :> 0)
                       @@ (MapAddr(internal_map_idx, ERRORS) :> 0),
              present |-> {<<internal_map_idx, EXIT>>,
                           <<internal_map_idx, ERRORS>>}]
  /\ drv' = [kind |-> "errors", i |-> 0, n |-> 1, this_block |-> NoBlock,
             nstmts |-> 0, max |-> MaxFires, hard |-> FALSE,
             late |-> [c \in Cpus |-> FALSE]]
  /\ UNCHANGED <<prog, u, requested, inp, ctl, hist>>

\* The probe fires on an idle CPU.
FireInvocation ==
  /\ pc = "run" /\ drv.kind = "errors" /\ drv.nstmts < drv.max
  /\ \E c \in Cpus :
       /\ mach.cpus[c].state = "off"
       /\ mach' = [mach EXCEPT !.cpus[c] =
                     StartMachine(prog, <<>>, (BPF_REG_1 :> CtxBase))]
       /\ drv' = [drv EXCEPT !.nstmts = @ + 1, !.late[c] = drv.hard]
  /\ UNCHANGED <<prog, u, pc, requested, inp, ctl, hist>>

\* perf_event_output on CPU c: the message is sent.
CpuOutput ==
  /\ pc = "run"
  /\ \E c \in Cpus :
       /\ Running(c) /\ CpuAtInsn(c)
       /\ CpuInsns(c)[mach.cpus[c].i].op = "call"
       /\ CpuInsns(c)[mach.cpus[c].i].aux = "perf_event_output"
       /\ mach' = [mach EXCEPT !.cpus[c] =
                     CallHelper(mach.cpus[c], "perf_event_output", 0)]
       /\ drv' = [drv EXCEPT !.hard =
                    @ \/ Load(mach.cpus[c], mach.cpus[c].regs[BPF_REG_4]) = STP_ERROR]
  /\ UNCHANGED <<prog, u, pc, requested, inp, ctl, hist>>

\* The exit instruction, or the end of the code, on CPU c: the invocation
\* is over and the CPU is idle again.
CpuExit ==
  /\ pc = "run"
  /\ \E c \in Cpus :
       /\ \/ mach.cpus[c].state = "end"
          \/ /\ Running(c) /\ CpuAtInsn(c)
             /\ CpuInsns(c)[mach.cpus[c].i].op = "exit"
       /\ mach' = [mach EXCEPT !.cpus[c] = NoMachine]
       /\ drv' = [drv EXCEPT !.late[c] = FALSE]
  /\ UNCHANGED <<prog, u, pc, requested, inp, ctl, hist>>

NextErrors ==
  \/ TranslateErrorProbe
  \/ EmbeddedRegisterError
  \/ VisitNextStatement
  \/ FinishTranslate
  \/ LoadProgram
  \/ FireInvocation
  \/ CpuStraight
  \/ CpuJcond
  \/ CpuFallthru
  \/ CpuLookup
  \/ CpuUpdate
  \/ CpuOutput
  \/ CpuExit

SpecErrors == InitProbe /\ [][NextErrors]_vars

\* The soft-error counter in the shared map of internal globals.
SharedErrors == mach.maps[MapAddr(internal_map_idx, ERRORS)]
Loaded == pc = "run" /\ drv.kind = "errors"

\* C22 as claimed: the counter in the shared map never decreases, and an
\* invocation that begins after a hard error has been notified never
\* executes the body of the probe.
C22_CounterNeverDecreases ==
  /\ [][(Loaded /\ Loaded') => SharedErrors' >= SharedErrors]_vars
  /\ [](Loaded => \A c \in Cpus :
          (drv.late[c] /\ Running(c)) => mach.cpus[c].blk \notin hist.bodies)

\* The hard error has been notified, the counter is back at the ceiling,
\* and an invocation that began afterwards runs the body of the probe.
C22_LateBodyRuns ==
  /\ Loaded /\ drv.hard /\ SharedErrors <= u.MAXERRORS
  /\ \E c \in Cpus :
       drv.late[c] /\ Running(c) /\ mach.cpus[c].blk \in hist.bodies

-----------------------------------------------------------------------------
(* SpecInit: the begin program is built from the initialisers of the       *)
(* globals, alone or followed by the begin probes (translate_init_and_     *)
(* probe_v); a probe and a probe group are translated as well              *)

MaxInits == 2

\* bpf_unparser::emit_store for a scalar global of type long in slot g: the
\* value and the key go to the stack, then map_update_elem.
emit_store_long(cx, g, val) ==
  LET frame == lookup_reg(BPF_REG_10)
  IN Then([c1 \in {emit_long_arg(cx, lookup_reg(BPF_REG_3), -8, val)} |->
     Then([c2 \in {reserve_tmp_space(mk_st(c1, BPF_W, frame, -12, Imm(g.idx)), 12)} |->
     Then([c3 \in {load_map(c2, lookup_reg(BPF_REG_1), g.map_id)} |->
     Then([c4 \in {mk_binary(c3, "add", lookup_reg(BPF_REG_2), frame, Imm(-12))} |->
     Then([c5 \in {mk_mov(c4, lookup_reg(BPF_REG_4), Imm(0))} |->
     mk_call(c5, "map_update_elem", 4)])])])])])

\* The statements of an init_block: global k = 5, for the first n scalar
\* longs of the script (they share map 2, indexes from 0).
RECURSIVE init_block_visit(_, _)
init_block_visit(cx, n) ==
  IF n = 0 THEN cx
  ELSE Then([c1 \in {init_block_visit(cx, n - 1)} |->
         emit_store_long(c1, [idx |-> n - 1, map_id |-> 2], Imm(5))])

\* translate_init_and_probe_v up to the test of v.empty(): a new unparser,
\* a new block made current, the init block visited.
translate_init_enter(p, glob, maxerrors, ninit) ==
  Then([c0 \in {Cx(p, NewUnparserFor(glob, maxerrors))} |->
  Then([c1 \in {set_block(new_block(c0), NextBlock(c0))} |->
  init_block_visit(c1, ninit)])])

\* translate_init_and_probe_v with no begin probe: the ret0 block (and with
\* it the exit block and the epilogue) is made by the unparser that visited
\* the init block, and jumped to.
translate_init_leave(cx) ==
  Then([c1 \in {get_ret0_block(cx)} |->
    IF in_block(c1) THEN emit_jmp(c1, c1.u.ret0_block)
    ELSE [c1 EXCEPT !.u.crash = TRUE]])

\* An instruction of the program has an operand that was never initialised.
ReadsUninit(p) ==
  \E b \in 1..Len(p.blocks) : \E k \in 1..Len(p.blocks[b].insns) :
    \/ p.blocks[b].insns[k].a.t = "uninit"
    \/ p.blocks[b].insns[k].b.t = "uninit"

\* translate_init_and_probe_v(prog, glob, init, begin_v) for a script with
\* ninit initialised globals and n begin probes.  An instruction built on
\* a value pointer that was never assigned either crashes the translator
\* or is kept with whatever the pointer held (wild).
TranslateInitAndProbeV ==
  /\ pc = "idle"
  /\ \E ninit \in 1..MaxInits, n \in 0..MaxProbes, me \in MAXERRORS_values,
        wild \in BOOLEAN :
       LET ci == translate_init_enter(NewProgram(target_user_bpfinterp),
                                      NewGlobals, me, ninit)
           cl == translate_init_leave(ci)
           c0 == translate_probe_v_enter(ci.p, NewGlobals, me)
           this_block == Len(c0.p.blocks)
       IN /\ wild => (n = 0 /\ ReadsUninit(cl.p))
          /\ IF n = 0
             THEN /\ After(IF ReadsUninit(cl.p) /\ ~wild
                           THEN [cl EXCEPT !.u.crash = TRUE] ELSE cl,
                           "translated")
                  /\ hist' = hist
                  /\ drv' = [NoDriver EXCEPT !.kind = "init"]
             ELSE /\ After(probe_v_body_enter(c0, this_block, 0, 1), "body")
                  /\ hist' = [hist EXCEPT !.bodies = {this_block}]
                  /\ drv' = [NoDriver EXCEPT !.kind = "probe_v", !.n = n,
                                             !.this_block = this_block,
                                             !.max = MaxStmts]
  /\ UNCHANGED <<requested, mach, inp, ctl>>

NextInit ==
  \/ TranslateInitAndProbeV
  \/ TranslateProbe
  \/ TranslateProbeV
  \/ NextProbeV
  \/ FinishTranslate
  \/ EmbeddedRegisterError
  \/ EmbeddedTerminate
  \/ VisitNextStatement
  \/ VisitSymbol

SpecInit == InitProbe /\ [][NextInit]_vars

\* The blocks that set the error status to 0, and the operand the epilogue
\* tests against 0 at the end of the exit block.
ClearBlocks ==
  {b \in 1..Len(prog.blocks) :
     \E k \in 1..Len(prog.blocks[b].insns) :
       /\ prog.blocks[b].insns[k].op = "mov"
       /\ prog.blocks[b].insns[k].d = u.error_status
       /\ prog.blocks[b].insns[k].a = Imm(0)}
EpilogueTest == Back(prog.blocks[u.exit_block].insns)
HasEpilogue == pc = "translated" /\ u.exit_block # NoBlock
Created(v) ==
  v.t = "reg" /\ v.v >= MAX_BPF_REG /\ v.v < MAX_BPF_REG + prog.nregs

\* C23 as claimed: in every generated program the operand the epilogue
\* tests is a register that was created, and the epilogue cannot be reached
\* from the entry without passing a block that sets this register to 0.
C23_StatusClearedBeforeEpilogue ==
  HasEpilogue =>
    /\ EpilogueTest.op = "jcond" /\ Created(EpilogueTest.b)
    /\ EpilogueTest.b = u.error_status
    /\ u.exit_block \notin ReachableAvoiding(prog, ClearBlocks)

\* The begin program of a script with initialised globals and no begin
\* probe: its epilogue tests an operand that was never created.
C23_UninitTested ==
  /\ HasEpilogue /\ drv.kind = "init"
  /\ EpilogueTest.op = "jcond" /\ EpilogueTest.b.t = "uninit"
  /\ u.exit_block \in ReachableAvoiding(prog, ClearBlocks)

-----------------------------------------------------------------------------
(* SpecStatLoop: the globals of a script with an array of longs and an     *)
(* array of aggregates are planned and a probe whose body is made of       *)
(* foreach loops over them, sorted or not, is translated                   *)

MaxStatLoops == 2

\* globals::stat_iter_field
stat_iter_field == "count"

\* A foreach (k [+-] in base [+-]) { ... }: sort_direction is -1, 0 or 1;
\* sort_column is 0 for a sort on the value and i for a sort on index i.
ForeachOver(base, sort_direction, sort_column) ==
  [base |-> base, sort_direction |-> sort_direction,
   sort_column |-> sort_column, index_types |-> <<pe_long>>]

\* bpf_unparser::visit_foreach_loop, "Get map_slot for arraydecl": the map
\* the loop iterates is the array's own map, or for an array of aggregates
\* the map of stat_iter_field; then on as visit_foreach_loop_enter has it.
visit_foreach_loop_over(cx, loop) ==
  LET glob == cx.u.glob
      known == loop.base \in DOMAIN glob.globals
      is_stat_array == known /\ glob.globals[loop.base].map_id < 0
      s == [limit |-> NoVal, keys |-> <<Reg(MAX_BPF_REG + 1)>>,
            index_types |-> loop.index_types,
            sort_column |-> loop.sort_column,
            sort_direction |-> loop.sort_direction, array_slice |-> FALSE,
            map_id |-> IF ~known THEN -1
                       ELSE IF ~is_stat_array THEN glob.globals[loop.base].map_id
                       ELSE IF loop.base \in DOMAIN glob.array_stats
                       THEN glob.array_stats[loop.base][stat_iter_field]
                       ELSE -1,
            is_stat |-> is_stat_array, value |-> NoVal,
            value_type |-> pe_unknown]
  IN IF cx.p.target = target_kernel_bpf THEN throw(cx)
     ELSE IF ~known THEN throw(cx)
     ELSE IF glob.globals[loop.base].idx >= 0 THEN [cx EXCEPT !.u.crash = TRUE]
     ELSE IF is_stat_array /\ loop.base \notin DOMAIN glob.array_stats
     THEN throw(cx)
     ELSE [visit_foreach_loop_enter(cx, s) EXCEPT !.u.result = Imm(s.map_id)]

\* translate_globals for the script's two arrays, then translate_probe up
\* to the body of the probe.
TranslateStatProbe ==
  /\ pc = "idle"
  /\ LET glob == NewGlobals
                 @@ translate_globals(NewLayout, <<ArrayDecl(<<pe_long>>), StatDecl(1)>>)
         cx == translate_probe_enter(NewProgram(target_user_bpfinterp), glob, 0, 2)
     IN /\ After(cx, "body")
        /\ hist' = [hist EXCEPT !.bodies = {cx.u.this_ins}]
  /\ drv' = [NoDriver EXCEPT !.kind = "probe", !.n = 1, !.max = MaxStatLoops]
  /\ UNCHANGED <<requested, mach, inp, ctl>>

\* The loops a script can hold.  A loop that asks for no sort leaves
\* sort_column unset ("s->sort_column may be uninitialized if
\* s->sort_direction == 0"): the translator finds any value there.
ForeachLoops ==
  {ForeachOver(base, dir, col) :
     base \in {"a", "s"}, dir \in {-1, 0, 1}, col \in {0, 1}}

\* foreach (...) { : visit_foreach_loop runs up to the loop body.
VisitForeachOver ==
  /\ CanVisit /\ u.this_ins # NoBlock
  /\ \E loop \in ForeachLoops :
       LET cx == visit_foreach_loop_over(Cx(prog, u), loop)
           s == [limit |-> NoVal, keys |-> <<Reg(MAX_BPF_REG + 1)>>,
                 index_types |-> loop.index_types,
                 sort_column |-> loop.sort_column,
                 sort_direction |-> loop.sort_direction, array_slice |-> FALSE,
                 map_id |-> cx.u.result.v, is_stat |-> loop.base = "s",
                 value |-> NoVal, value_type |-> pe_unknown]
       IN /\ After(cx, "body")
          /\ ctl' = Append(ctl, [kind |-> "foreach", s |-> s,
                                 f |-> ForeachLocals(Cx(prog, u), s)])
          /\ hist' = [hist EXCEPT !.loops =
                        Append(@, [loop |-> loop, at |-> u.this_ins])]
  /\ Visited
  /\ UNCHANGED <<requested, mach, inp>>

NextStatLoop ==
  \/ TranslateStatProbe
  \/ VisitForeachOver
  \/ EndForeachBody
  \/ VisitNextStatement
  \/ FinishTranslate

SpecStatLoop == InitProbe /\ [][NextStatLoop]_vars

\* The loop visited last, and whether visit_foreach_loop refused it.
LastLoop == Back(hist.loops).loop
LoopVisited == hist.loops # <<>> /\ pc \in {"body", "error"} /\ drv.kind = "probe"
Rejected == pc = "error"
SortOnValue(loop) == loop.sort_direction # 0 /\ loop.sort_column = 0

\* The last map loaded in block b before its get-next-key call.
IteratedMap(b) ==
  LET ins == prog.blocks[b].insns
      k == CHOOSE i \in 1..Len(ins) :
             /\ ins[i].op = "ld_map"
             /\ \A j \in (i + 1)..Len(ins) : ins[j].op # "ld_map"
  IN ins[k].a.v
SeedsNextKey(b) ==
  LET ins == prog.blocks[b].insns
  IN /\ Len(ins) >= 2
     /\ ins[Len(ins) - 1].op = "call"
     /\ ins[Len(ins) - 1].aux = "map_get_next_key"

\* C24 as claimed: a foreach over the array of aggregates is refused
\* exactly when it asks for a sort on the aggregate value; one that asks
\* for no sort is accepted and iterates the map of the count field.
C24_RejectedIffSortOnValue ==
  (LoopVisited /\ LastLoop.base = "s") =>
    /\ Rejected <=> SortOnValue(LastLoop)
    /\ (LastLoop.sort_direction = 0) =>
         /\ SeedsNextKey(Back(hist.loops).at)
         /\ IteratedMap(Back(hist.loops).at) = u.glob.array_stats["s"]["count"]

\* A foreach over the array of aggregates that asks for no sort has been
\* refused.
C24_UnsortedRejected ==
  /\ LoopVisited /\ LastLoop.base = "s" /\ LastLoop.sort_direction = 0
  /\ Rejected

-----------------------------------------------------------------------------
(* SpecLoop: a probe for the interpreter whose body is made of for and     *)
(* foreach loops, nested or not, with break, continue and next statements  *)
(* inside and outside of them, is translated                               *)

MaxNestStmts == 3

\* The condition of the for loops of the scripts: i < 2.
ForCond == Comparison("<", Local(0), Num(2))

\* The four blocks of visit_for_loop, made in the order body, iter, test,
\* join.
ForLocals(cx) ==
  [body_block |-> NextBlock(cx), iter_block |-> NextBlock(cx) + 1,
   test_block |-> NextBlock(cx) + 2, join_block |-> NextBlock(cx) + 3]

\* bpf_unparser::visit_for_loop after the loop body (increment empty): the
\* jump to the iter block, both stacks popped, the test of the condition.
visit_for_loop_leave(cx, f) ==
  Then([c1 \in {IF in_block(cx) THEN emit_jmp(cx, f.iter_block) ELSE cx} |->
  Then([c2 \in {set_block([c1 EXCEPT !.u.loop_cont = PopBack(@),
                                     !.u.loop_break = PopBack(@)],
                          f.iter_block)} |->
  Then([c3 \in {emit_jmp(c2, f.test_block)} |->
  Then([c4 \in {emit_cond(set_block(c3, f.test_block), ForCond,
                          f.body_block, f.join_block)} |->
  set_block(c4, f.join_block)])])])])

TranslateLoopProbe ==
  /\ pc = "idle"
  /\ LET cx == translate_probe_enter(NewProgram(target_user_bpfinterp),
                                     NewGlobals, 0, 3)
     IN /\ After(cx, "body")
        /\ hist' = [hist EXCEPT !.bodies = {cx.u.this_ins}]
  /\ drv' = [NoDriver EXCEPT !.kind = "probe", !.n = 1, !.max = MaxNestStmts]
  /\ UNCHANGED <<requested, mach, inp, ctl>>

\* for (; i < 2; ) { : visit_for_loop runs up to the loop body; with no
\* current block it returns at once.
VisitForLoop ==
  /\ CanVisit
  /\ After(visit_for_loop_enter(Cx(prog, u)), "body")
  /\ ctl' = IF u.this_ins = NoBlock THEN ctl
            ELSE Append(ctl, [kind |-> "for", f |-> ForLocals(Cx(prog, u))])
  /\ Visited
  /\ UNCHANGED <<requested, mach, inp, hist>>

\* The body of the for loop has been visited.
EndForBody ==
  /\ pc = "body" /\ ctl # <<>> /\ Back(ctl).kind = "for"
  /\ After(visit_for_loop_leave(Cx(prog, u), Back(ctl).f), "body")
  /\ ctl' = PopBack(ctl)
  /\ UNCHANGED <<requested, mach, inp, drv, hist>>

\* foreach ([k1, k2] in a) { : visit_foreach_loop runs up to the loop body.
VisitForeachLoop ==
  /\ CanVisit /\ u.this_ins # NoBlock
  /\ After(visit_foreach_loop_enter(Cx(prog, u), ForeachStmt(NoVal)), "body")
  /\ ctl' = Append(ctl, [kind |-> "foreach", s |-> ForeachStmt(NoVal),
                         f |-> ForeachLocals(Cx(prog, u), ForeachStmt(NoVal))])
  /\ Visited
  /\ UNCHANGED <<requested, mach, inp, hist>>

\* break or continue; hist.loops keeps what was lowered and the block that
\* was current.
VisitBreakOrContinue ==
  /\ CanVisit
  /\ \E stmt \in {"break", "continue"} :
       /\ After(IF stmt = "break" THEN visit_break_statement(Cx(prog, u))
                ELSE visit_continue_statement(Cx(prog, u)), "body")
       /\ hist' = [hist EXCEPT !.loops =
                     Append(@, [stmt |-> stmt, at |-> u.this_ins])]
  /\ Visited
  /\ UNCHANGED <<requested, mach, inp, ctl>>

NextLoop ==
  \/ TranslateLoopProbe
  \/ VisitForLoop
  \/ EndForBody
  \/ VisitForeachLoop
  \/ EndForeachBody
  \/ VisitBreakOrContinue
  \/ VisitNextStatement
  \/ FinishTranslate

SpecLoop == InitProbe /\ [][NextLoop]_vars

\* The target of a break or continue lowered now: the join or the iter
\* block of the innermost loop whose body is being visited.
LoopTarget(stmt) ==
  IF stmt = "break" THEN Back(ctl).f.join_block ELSE Back(ctl).f.iter_block

\* A step that lowers a break or a continue with a current block.
JumpLowered ==
  Len(hist'.loops) > Len(hist.loops) =>
    IF ctl = <<>> THEN pc' = "error" /\ prog' = prog
    ELSE u.this_ins # NoBlock =>
           /\ pc' = "body"
           /\ prog' = [prog EXCEPT !.blocks[u.this_ins].fallthru =
                         LoopTarget(Back(hist'.loops).stmt)]

\* The two stacks hold the join and the iter block of each loop whose body
\* is being visited, outermost first.
StacksMatchLoops ==
  (pc \in {"body", "translated"} /\ drv.kind = "probe") =>
    /\ Len(u.loop_break) = Len(ctl) /\ Len(u.loop_cont) = Len(ctl)
    /\ \A k \in 1..Len(ctl) :
         /\ u.loop_break[k] = ctl[k].f.join_block
         /\ u.loop_cont[k] = ctl[k].f.iter_block

JumpAlways ==
  Len(hist'.loops) > Len(hist.loops) =>
    IF ctl = <<>> THEN pc' = "error" /\ prog' = prog
    ELSE /\ pc' = "body"
         /\ \E b \in 1..Len(prog.blocks) :
              prog' = [prog EXCEPT !.blocks[b].fallthru =
                         LoopTarget(Back(hist'.loops).stmt)]

-----------------------------------------------------------------------------
(* SpecSlots: translate_globals plans the storage of a session that        *)
(* declares several scalars of each type, arrays and arrays of aggregates, *)
(* in any order                                                            *)

MaxDeclared == 4

Scalar(name, type) ==
  [name |-> name, arity |-> 0, type |-> type, index_types |-> <<>>,
   maxsize |-> 0]
Array(name, type) ==
  [name |-> name, arity |-> 1, type |-> type, index_types |-> <<pe_long>>,
   maxsize |-> 0]

\* The globals a session may declare: two of each scalar type, an array of
\* long and two arrays of aggregates.
SessionGlobals ==
  {Scalar("n1", pe_long), Scalar("n2", pe_long),
   Scalar("t1", pe_string), Scalar("t2", pe_string),
   Scalar("s1", pe_stats), Scalar("s2", pe_stats),
   Array("a", pe_long), Array("sa1", pe_stats), Array("sa2", pe_stats)}
\* s.globals: each variable once, in the order of the session.
SessionLists ==
  {dl \in UNION {[1..n -> SessionGlobals] : n \in 0..MaxDeclared} :
     \A i, j \in 1..Len(dl) : i # j => dl[i] # dl[j]}

\* translate_globals(glob, s) on the new Globals of a pass.
PlanSession ==
  /\ pc = "idle"
  /\ \E decls \in SessionLists :
       drv' = [kind |-> "slots", decls |-> decls,
               glob |-> translate_globals(PassGlobals(NewLayout), decls)]
  /\ pc' = "planned"
  /\ UNCHANGED <<prog, u, requested, mach, inp, ctl, hist>>

\* The session ends; the next one starts from nothing.
EndSession ==
  /\ pc = "planned" /\ drv.kind = "slots"
  /\ pc' = "idle"
  /\ drv' = NoDriver
  /\ UNCHANGED <<prog, u, requested, mach, inp, ctl, hist>>

NextSlots == PlanSession \/ EndSession

SpecSlots == InitProbe /\ [][NextSlots]_vars

Planned == pc = "planned" /\ drv.kind = "slots"
\* The scalars of a type, by position in s.globals, and the slot of the
\* variable at a position.
ScalarsOf(type) ==
  {i \in 1..Len(drv.decls) :
     drv.decls[i].arity = 0 /\ drv.decls[i].type = type}
SlotOf(i) == drv.glob.globals[drv.decls[i].name]
\* The maps the variable at position i is kept in.
MapsOf(i) ==
  IF drv.decls[i].type # pe_stats THEN {SlotOf(i).map_id}
  ELSE IF drv.decls[i].arity = 0
  THEN {drv.glob.scalar_stats[f] : f \in DOMAIN drv.glob.scalar_stats}
  ELSE {drv.glob.array_stats[drv.decls[i].name][f] :
          f \in DOMAIN drv.glob.array_stats[drv.decls[i].name]}
\* The first variable of s.globals kept in map m.
FirstSeen(m) ==
  CHOOSE i \in 1..Len(drv.decls) :
    /\ m \in MapsOf(i)
    /\ \A j \in 1..(i - 1) : m \notin MapsOf(j)

\* The two internal maps come first; the maps of the variables are the
\* identifiers after them with none left out, in the order in which the
\* variables that first use them are declared.
DenseFirstSeen ==
  /\ Len(drv.glob.maps) >= 2
  /\ drv.glob.maps[1].type = "BPF_MAP_TYPE_HASH"
  /\ drv.glob.maps[2].type = "BPF_MAP_TYPE_PERF_EVENT_ARRAY"
  /\ drv.glob.globals["__STAPBPF_exit"].map_id = 0
  /\ drv.glob.globals["__STAPBPF_errors"].map_id = 0
  /\ UNION {MapsOf(i) : i \in 1..Len(drv.decls)}
       = 2..(Len(drv.glob.maps) - 1)
  /\ \A m1, m2 \in 2..(Len(drv.glob.maps) - 1) :
       m1 < m2 => FirstSeen(m1) <= FirstSeen(m2)

\* The scalars of the type share one map, each has the next free index of
\* it, and the map has as many elements as there are scalars of the type.
SharedScalarMap(type) ==
  \A i \in ScalarsOf(type) :
    /\ \A j \in ScalarsOf(type) : SlotOf(j).map_id = SlotOf(i).map_id
    /\ SlotOf(i).idx = Cardinality({j \in ScalarsOf(type) : j < i})
    /\ drv.glob.maps[SlotOf(i).map_id + 1].max_entries
         = Cardinality(ScalarsOf(type))

\* C26: the maps of the declared globals are numbered densely from 2 in
\* first-seen order after the two internal maps 0 and 1; the long scalars
\* share one map and the string scalars another, each scalar has the next
\* free index of its map, the map has as many elements as there are scalars
\* of its type, and no two scalars have the same slot (map, index).
C26_DenseMapsSharedScalars ==
  Planned =>
    /\ ~drv.glob.crash /\ ~drv.glob.error
    /\ DenseFirstSeen
    /\ SharedScalarMap(pe_long)
    /\ SharedScalarMap(pe_string)
    /\ \A i \in ScalarsOf(pe_long), j \in ScalarsOf(pe_string) :
         SlotOf(i).map_id # SlotOf(j).map_id
    /\ \A i, j \in 1..Len(drv.decls) :
         (i # j /\ drv.decls[i].arity = 0 /\ drv.decls[j].arity = 0)
           => SlotOf(i) # SlotOf(j)

\* Two long scalars around a string scalar and an array: the longs in map 2
\* at 0 and 1, the string in map 3, the array in map 4.
C26_Witness ==
  /\ Planned /\ Len(drv.decls) = 4
  /\ Cardinality(ScalarsOf(pe_long)) = 2
  /\ Cardinality(ScalarsOf(pe_string)) = 1
  /\ drv.decls[1].type = pe_long /\ drv.decls[4].type = pe_long
  /\ drv.decls[3].arity = 1 /\ drv.decls[3].type = pe_long
  /\ SlotOf(4) = MapSlot(2, 1) /\ SlotOf(3).map_id = 4

\* The arrays of aggregates, by position in s.globals.
ArrayAggregates ==
  {i \in 1..Len(drv.decls) :
     drv.decls[i].arity > 0 /\ drv.decls[i].type = pe_stats}
AggIdx(i) == drv.glob.aggregates[drv.decls[i].name]
\* How many arrays of aggregates are declared up to position i.
AggRank(i) == Cardinality({j \in ArrayAggregates : j <= i})

\* C27 as stated: the arrays of aggregates have the agg_idx 1, 2, 3, ... in
\* the order of declaration.
C27_AggIdxFromOne ==
  Planned =>
    /\ DOMAIN drv.glob.aggregates
         = {drv.decls[i].name : i \in ArrayAggregates}
    /\ \A i \in ArrayAggregates : AggIdx(i) = AggRank(i)

\* C27: the arrays of aggregates have the agg_idx 2, 3, 4, ... in the
\* order of declaration (the assignment is made once per stat field, and
\* from the second field on the array itself is counted); 0 and 1 are
\* given to none, no two arrays share an agg_idx and none from 2 on is
\* left out.
C27_AggIdxFromTwo ==
  Planned =>
    /\ DOMAIN drv.glob.aggregates
         = {drv.decls[i].name : i \in ArrayAggregates}
    /\ \A i \in ArrayAggregates : AggIdx(i) = 1 + AggRank(i)
    /\ {AggIdx(i) : i \in ArrayAggregates}
         = 2..(1 + Cardinality(ArrayAggregates))
    /\ \A i, j \in ArrayAggregates : i # j => AggIdx(i) # AggIdx(j)

\* Two arrays of aggregates with other globals around them: agg_idx 2 and
\* 3.
C27_Witness ==
  /\ Planned /\ Cardinality(ArrayAggregates) = 2
  /\ Len(drv.decls) = 4
  /\ \E i, j \in ArrayAggregates : i < j /\ AggIdx(i) = 2 /\ AggIdx(j) = 3

-----------------------------------------------------------------------------
(* SpecTmpSpace: a probe whose body is made of assignments to a global,    *)
(* reads of a global, error(), exit() and next is translated, and the      *)
(* stack slots of the emitted code are compared with max_tmp_space         *)

MaxTmpStmts == 2

TranslateTmpProbe ==
  /\ pc = "idle"
  /\ \E t \in Targets, me \in MAXERRORS_values :
       LET cx == translate_probe_enter(NewProgram(t), NewGlobals, me, 1)
       IN /\ After(cx, "body")
          /\ hist' = [hist EXCEPT !.bodies = {cx.u.this_ins}]
  /\ drv' = [NoDriver EXCEPT !.kind = "probe", !.n = 1, !.max = MaxTmpStmts]
  /\ UNCHANGED <<requested, mach, inp, ctl>>

\* An assignment g = 5 to the global long of the scripts.
VisitAssignment ==
  /\ CanVisit /\ u.this_ins # NoBlock
  /\ After(emit_store_long(Cx(prog, u), GlobalLong, Imm(5)), "body")
  /\ Visited
  /\ UNCHANGED <<requested, mach, inp, ctl, hist>>

NextTmpSpace ==
  \/ TranslateTmpProbe
  \/ VisitAssignment
  \/ VisitSymbol
  \/ EmbeddedRegisterError
  \/ EmbeddedTerminate
  \/ VisitNextStatement
  \/ FinishTranslate

SpecTmpSpace == InitProbe /\ [][NextTmpSpace]_vars

\* The instructions of the program.
EmittedInsns(p) ==
  UNION {{p.blocks[b].insns[k] : k \in 1..Len(p.blocks[b].insns)} :
           b \in 1..Len(p.blocks)}
\* The depths below the frame pointer the emitted instructions touch: a
\* store to or a load from r10 + off, and an address r10 + off handed to a
\* helper.
StackDepths(p) ==
  {0 - i.off : i \in {j \in EmittedInsns(p) :
     \/ j.op = "st" /\ j.d = lookup_reg(BPF_REG_10)
     \/ j.op = "ld" /\ j.a = lookup_reg(BPF_REG_10)}}
  \cup
  {0 - i.b.v : i \in {j \in EmittedInsns(p) :
     j.op = "add" /\ j.a = lookup_reg(BPF_REG_10) /\ j.b.t = "imm"}}

\* C28 as claimed: when a program has been translated, every stack slot
\* its instructions touch lies in [-max_tmp_space, 0).
C28_StackWithinTmpSpace ==
  pc = "translated" =>
    \A d \in StackDepths(prog) : d > 0 /\ d <= prog.max_tmp_space

\* A program has been translated whose epilogue stores the key of the
\* error counter at r10 - 12 while max_tmp_space is 8.
C28_KeyBelowTmpSpace ==
  /\ pc = "translated" /\ drv.kind = "probe" /\ drv.max = MaxTmpStmts
  /\ prog.max_tmp_space = 8
  /\ \E i \in EmittedInsns(prog) :
       i.op = "st" /\ i.d = lookup_reg(BPF_REG_10) /\ i.off = -12
                   /\ i.a = Imm(ERRORS)

-----------------------------------------------------------------------------
(* SpecReloc: a probe that reads and assigns globals and loads a 64-bit    *)
(* literal is translated, and output_probe writes its code section and its *)
(* relocation table                                                        *)

MaxRelocStmts == 2
SIZEOF_BPF_INSN == 8

\* program::mk_mov of an immediate that does not fit 32 bits: one
\* instruction BPF_LD | BPF_IMM | BPF_DW; the immediate is kept as its low
\* and high 32-bit halves.
mk_mov_wide(cx, d, lo, hi) ==
  new_insn(cx, cx.u.this_ins, Insn("ld_imm64", 8, d, Imm(lo), Imm(hi), 0, ""))

\* One bpf_insn of the buffer; calloc leaves every field zero.
ZeroSlot == [code |-> "", dst_reg |-> 0, src_reg |-> 0, imm |-> 0, off |-> 0]
RegOf(v) == IF v.t = "reg" THEN v.v ELSE 0

\* The faulty variant: the relocation names the symbol at the index of
\* the map id itself.
output_probe_slot_unshifted(out, j) ==
  IF j.op = "ld_map"
  THEN [buf |-> out.buf \o <<[ZeroSlot EXCEPT !.code = j.op,
                                              !.dst_reg = RegOf(j.d),
                                              !.src_reg = 1],
                             ZeroSlot>>,
        rel |-> Append(out.rel,
                       [r_offset |-> Len(out.buf) * SIZEOF_BPF_INSN,
                        r_sym |-> j.a.v])]
  ELSE IF j.op = "ld_imm64"
  THEN [out EXCEPT !.buf = @ \o <<[ZeroSlot EXCEPT !.code = j.op,
                                                   !.dst_reg = RegOf(j.d),
                                                   !.imm = j.a.v],
                                  [ZeroSlot EXCEPT !.imm = j.b.v]>>]
  ELSE [out EXCEPT !.buf = Append(@,
          [code |-> j.op,
           dst_reg |-> IF j.d.t # "none" THEN RegOf(j.d) ELSE RegOf(j.a),
           src_reg |-> IF j.op \in {"st", "ld"} THEN 0 ELSE RegOf(j.b),
           imm |-> IF j.b.t = "imm" THEN j.b.v ELSE 0,
           off |-> j.off])]

\* output_probe, second loop, one instruction: what it adds to buf (i is
\* the length of buf) and to rel.
output_probe_slot(out, j) ==
  IF j.op = "ld_map"
  THEN [buf |-> out.buf \o <<[ZeroSlot EXCEPT !.code = j.op,
                                              !.dst_reg = RegOf(j.d),
                                              !.src_reg = 1],
                             ZeroSlot>>,
        rel |-> Append(out.rel,
                       [r_offset |-> Len(out.buf) * SIZEOF_BPF_INSN,
                        r_sym |-> j.a.v + 1])]
  ELSE IF j.op = "ld_imm64"
  THEN [out EXCEPT !.buf = @ \o <<[ZeroSlot EXCEPT !.code = j.op,
                                                   !.dst_reg = RegOf(j.d),
                                                   !.imm = j.a.v],
                                  [ZeroSlot EXCEPT !.imm = j.b.v]>>]
  ELSE [out EXCEPT !.buf = Append(@,
          [code |-> j.op,
           dst_reg |-> IF j.d.t # "none" THEN RegOf(j.d) ELSE RegOf(j.a),
           src_reg |-> IF j.op \in {"st", "ld"} THEN 0 ELSE RegOf(j.b),
           imm |-> IF j.b.t = "imm" THEN j.b.v ELSE 0,
           off |-> j.off])]

\* output_probe, second loop, the instructions lo..hi of one block in
\* order (the range is halved to keep the evaluation shallow).
RECURSIVE output_probe_block(_, _, _, _)
output_probe_block(out, insns, lo, hi) ==
  IF lo > hi THEN out
  ELSE IF lo = hi THEN output_probe_slot(out, insns[lo])
  ELSE Let([o \in {output_probe_block(out, insns, lo, (lo + hi) \div 2)} |->
         output_probe_block(o, insns, ((lo + hi) \div 2) + 1, hi)])

\* output_probe, second loop: the blocks in the order of the block list.
RECURSIVE output_probe_fill(_, _, _)
output_probe_fill(p, b, out) ==
  IF b > Len(p.blocks) THEN out
  ELSE Let([o \in {output_probe_block(out, p.blocks[b].insns, 1,
                                      Len(p.blocks[b].insns))} |->
         output_probe_fill(p, b + 1, o)])

\* output_probe, first loop: ninsns and nreloc.
CountSlots(p) ==
  NInsns(p)
    + Cardinality({x \in AllInsns(p) : IsWide(p.blocks[x[1]].insns[x[2]])})
CountRelocs(p) == NOps(p, "ld_map")

TranslateRelocProbe ==
  /\ pc = "idle"
  /\ \E t \in Targets, me \in MAXERRORS_values :
       /\ After(translate_probe_enter(NewProgram(t), NewGlobals, me, 1), "body")
       /\ drv' = [kind |-> "reloc", i |-> 0, n |-> 1, this_block |-> NoBlock,
                  nstmts |-> 0, max |-> MaxRelocStmts, sections |-> <<>>,
                  buf |-> <<>>, rel |-> <<>>]
  /\ UNCHANGED <<requested, mach, inp, ctl, hist>>

\* x = 0x500000003 for a local x.
VisitWideLiteral ==
  /\ CanVisit /\ u.this_ins # NoBlock
  /\ After(mk_mov_wide(Cx(prog, u), Reg(MAX_BPF_REG), 3, 5), "body")
  /\ Visited
  /\ UNCHANGED <<requested, mach, inp, ctl, hist>>

\* translate_probe returns.
FinishRelocProbe ==
  /\ pc = "body" /\ drv.kind = "reloc"
  /\ After(translate_probe_leave(Cx(prog, u)), "translated")
  /\ UNCHANGED <<requested, mach, inp, drv, ctl, hist>>

\* output_probe(eo, prog, name, flags): the offsets of the jumps, the
\* buffer and the relocations, the section and its relocation section.
OutputProbeCode ==
  /\ pc = "translated" /\ drv.kind = "reloc"
  /\ prog' = output_probe_program(prog)
  /\ LET out == output_probe_fill(output_probe_program(prog), 1,
                                  [buf |-> <<>>, rel |-> <<>>])
     IN /\ pc' = IF \/ output_probe_stops(prog)
                    \/ Len(out.buf) # CountSlots(prog)
                    \/ Len(out.rel) # CountRelocs(prog)
                 THEN "crash" ELSE "code written"
        /\ drv' = [drv EXCEPT
                     !.buf = out.buf, !.rel = out.rel,
                     !.sections = output_probe(@, prog, "probe")]
  /\ hist' = [hist EXCEPT !.before = prog]
  /\ UNCHANGED <<u, requested, mach, inp, ctl>>

NextReloc ==
  \/ TranslateRelocProbe
  \/ VisitWideLiteral
  \/ VisitSymbol
  \/ VisitAssignment
  \/ EmbeddedRegisterError
  \/ VisitNextStatement
  \/ FinishRelocProbe
  \/ OutputProbeCode

SpecReloc == InitProbe /\ [][NextReloc]_vars

\* The instructions that refer to a map.
MapRefs(p) == {x \in AllInsns(p) : p.blocks[x[1]].insns[x[2]].op = "ld_map"}

\* C29: in the code section every wide load-immediate and every map
\* reference takes two slots and every other instruction one; the
\* relocation table has exactly one entry per map reference, at the byte
\* offset of the first slot of the instruction and with the symbol index
\* map id + 1, and none for any other instruction; the relocation section
\* is there exactly when the program has a map reference.
C29_SlotsAndRelocations ==
  (pc = "code written" /\ drv.kind = "reloc") =>
    /\ Len(drv.buf) = SlotsBefore(prog, Len(prog.blocks) + 1)
    /\ \A x \in AllInsns(prog) :
         LET j == prog.blocks[x[1]].insns[x[2]]
             at == InsnId(prog, x[1], x[2]) + 1
         IN /\ drv.buf[at].code = j.op
            /\ IF j.op \in {"ld_map", "ld_imm64"}
               THEN /\ drv.buf[at + 1].code = ""
                    /\ \/ at + 1 = Len(drv.buf)
                       \/ drv.buf[at + 2].code # ""
               ELSE \/ at = Len(drv.buf)
                    \/ drv.buf[at + 1].code # ""
    /\ Len(drv.rel) = Cardinality(MapRefs(prog))
    /\ {drv.rel[r] : r \in 1..Len(drv.rel)}
         = {[r_offset |-> InsnId(prog, x[1], x[2]) * SIZEOF_BPF_INSN,
             r_sym |-> prog.blocks[x[1]].insns[x[2]].a.v + 1] :
              x \in MapRefs(prog)}
    /\ \A r, q \in 1..Len(drv.rel) :
         r < q => drv.rel[r].r_offset < drv.rel[q].r_offset
    /\ drv.sections[1] = "probe"
    /\ Len(drv.sections) = IF MapRefs(prog) # {} THEN 2 ELSE 1
    /\ Len(drv.sections) = 2 => drv.sections[2] = <<".rel.", "probe">>

\* A code section has been written for a program with a wide
\* load-immediate in front of the read of a global: the relocation of the
\* map reference of the read is at the slot after the two of the
\* load-immediate and the one of the store of the key.
C29_Witness ==
  /\ pc = "code written" /\ drv.kind = "reloc"
  /\ \E at \in 1..(Len(drv.buf) - 4) :
       /\ drv.buf[at].code = "ld_imm64" /\ drv.buf[at + 1].imm = 5
       /\ drv.buf[at + 2].code = "st"
       /\ drv.buf[at + 3].code = "ld_map"
       /\ \E r \in 1..Len(drv.rel) :
            drv.rel[r].r_offset = (at + 2) * SIZEOF_BPF_INSN
  /\ \E r \in 1..Len(drv.rel) : drv.rel[r].r_sym = internal_map_idx + 1

-----------------------------------------------------------------------------
(* SpecLabels: a probe whose body is a function of embedded assembly with  *)
(* labels at its start, labels that follow one another, instructions and   *)
(* jumps, is translated                                                    *)

MaxLabelStmts == 3

AsmBodies == UNION {[1..n -> AsmStmts] : n \in 1..MaxLabelStmts}

TranslateLabelProbe ==
  /\ pc = "idle"
  /\ \E t \in Targets :
       LET cx == translate_probe_enter(NewProgram(t), NewGlobals, 0, 1)
       IN /\ After(cx, "body")
          /\ hist' = [hist EXCEPT !.bodies = {cx.u.this_ins}]
  /\ drv' = [NoDriver EXCEPT !.kind = "probe", !.n = 1, !.max = 2]
  /\ UNCHANGED <<requested, mach, inp, ctl>>

\* The embedded-code body is visited; inp keeps its statements and hist
\* the program and the current block as they were before.
VisitAsmBody ==
  /\ CanVisit /\ u.this_ins # NoBlock
  /\ \E stmts \in AsmBodies, null_edge \in BOOLEAN :
       /\ (null_edge => UndefinedJumps(stmts) # {})
       /\ After(visit_embeddedcode(Cx(prog, u), stmts, null_edge), "body")
       /\ inp' = [kind |-> "asm", stmts |-> stmts, entry |-> u.this_ins]
  /\ hist' = [hist EXCEPT !.before = prog]
  /\ drv' = [drv EXCEPT !.nstmts = drv.max]
  /\ UNCHANGED <<requested, mach, ctl>>

NextLabels ==
  \/ TranslateLabelProbe
  \/ VisitAsmBody
  \/ VisitNextStatement
  \/ FinishTranslate

SpecLabels == InitProbe /\ [][NextLabels]_vars

\* The body that was visited last is made of labels only: each of them is
\* at the start of the body or follows another label.
OnlyLabels ==
  /\ pc = "body" /\ inp.kind = "asm"
  /\ \A i \in 1..Len(inp.stmts) : inp.stmts[i].kind = "label"

\* C30 as claimed: a label at the start of the body and a label that
\* follows a label stand for the block that is current already, and the
\* emission of such a label adds no block and no edge: after a body of
\* nothing but labels the program is what it was, and the current block too.
C30_LabelsAddNothing ==
  OnlyLabels => /\ prog = hist.before
                /\ u.this_ins = inp.entry

\* After an instruction and two labels, the block of the two labels is
\* current and its fallthru edge leads to the block itself.
C30_SelfEdge ==
  /\ pc = "body" /\ inp.kind = "asm"
  /\ Len(inp.stmts) = 3
  /\ inp.stmts[1].kind = "opcode" /\ inp.stmts[1].op = "mov"
  /\ inp.stmts[2].kind = "label" /\ inp.stmts[3].kind = "label"
  /\ inp.stmts[2].dest # inp.stmts[3].dest
  /\ u.this_ins = Len(hist.before.blocks) + 1
  /\ Len(prog.blocks) = Len(hist.before.blocks) + 1
  /\ prog.blocks[u.this_ins].fallthru = u.this_ins

====
